---- MODULE Spec2Model ----
(***************************************************************************)
(* zombie-port-killer: the process directory service (ProcessService), the *)
(* three platform adapters (MacOSAdapter, LinuxAdapter, WindowsAdapter)    *)
(* and the kill workflow (KillCommand), as one state machine.              *)
(*                                                                         *)
(* The operating system is part of the state: the connection table the     *)
(* native tools print (netTable), the set of live pids (procs) and, on     *)
(* Linux, whether `ss` is installed (hasSS).  A native command that can    *)
(* fail for reasons outside the program (tool missing, permission denied)  *)
(* fails nondeterministically.                                             *)
(*                                                                         *)
(* zkill is a command-line tool: one run of the program makes one          *)
(* top-level call and exits.  What outlives a run is the operating system  *)
(* and the stored configuration, so Init ranges over those and a behaviour *)
(* is one run.                                                             *)
(***************************************************************************)
EXTENDS Integers, Sequences, FiniteSets, TLC

VARIABLES platform,     \* os.platform()
          netTable,     \* the OS connection table as the lookup's tool printed it
          procs,        \* the pids of the live processes
          hasSS,        \* Linux: `which ss` succeeds
          confirmKill,  \* StorageService config.confirmKill
          mappings,     \* StorageService config.portMappings
          inProject,    \* ProjectService.isProjectDirectory()
          op,           \* the top-level call in progress (or the last one finished)
          pc,           \* its position
          arg,          \* its arguments
          kill,         \* the adapter's killProcess call in progress
          found,        \* KillCommand.execute: the record findByPort returned
          ret,          \* the outcome of the top-level call
          log,          \* what the top-level call has done so far, in order
          lookupEnv,    \* findByPort: how the native commands of the lookup behaved
          ports,        \* getAllPorts: the sequence of records returned
          adapter,      \* ProcessService.adapter ("none" before construction)
          autoKillEnabled,  \* StorageService config.autoKillEnabled
          file,         \* the config file ~/.zkill/config.json
          now,          \* the clock `new Date()` reads
          added,        \* per port, the mapping last added and not removed since
          reloaded,     \* the configuration a StorageService constructed later loaded
          lastWrite,    \* how the last saveConfig ended
          cwd,          \* process.cwd()
          auto,         \* AutoCommand.checkAndKill: its local variables
          options,      \* ScanCommand.execute: the options it was called with
          shown,        \* ScanCommand.execute: the records displayed, in order
          etime,        \* parseElapsedTime: the string it was called with
          elapsed,      \* parseElapsedTime: the number it returned
          inst          \* two zkill processes: the StorageService of each

vars == <<platform, netTable, procs, hasSS, confirmKill, mappings, inProject,
          op, pc, arg, kill, found, ret, log, lookupEnv, ports, adapter,
          autoKillEnabled, file, now, added, reloaded, lastWrite, cwd, auto,
          options, shown, etime, elapsed, inst>>

\* what only the commands other than kill and auto, and the adapter's
\* helpers called alone, change
cmdVars == <<options, shown, etime, elapsed, inst>>
osVars == <<platform, hasSS>>
cfgVars == <<confirmKill, mappings, inProject>>
\* what the kill workflow and the direct calls of findByPort and killProcess
\* leave alone
extVars == <<ports, adapter, autoKillEnabled, now, reloaded, cwd, auto,
            cmdVars>>
\* what a saveConfig changes
saveVars == <<file, added, lastWrite>>

----------------------------------------------------------------------------
(* Bounds *)

MaxSockets == 2       \* lines of the connection table, ProcessService called directly
MaxExecuteSockets == 1  \* lines of the connection table, kill workflow
MaxPid == 2           \* the pids of the process table are 1..MaxPid
MaxScanLines == 2     \* lines of an enumeration of the listening sockets
MaxContextSockets == 1  \* lines of the connection table, lookup with enrichment
MaxStorageOps == 3    \* calls made on one StorageService
MaxAutoSockets == 1   \* lines of the connection table, auto-kill check
MaxRuns == 3          \* runs of the program made one after the other
MaxDays == 2          \* the days of an elapsed time are 0..MaxDays
MaxCalls == 2         \* calls made one after the other on one LinuxAdapter

----------------------------------------------------------------------------
(* JavaScript numbers: an integer n, n + 1/2, NaN or +Infinity *)

JSInt(n) == [k |-> "int", n |-> n]
JSFrac(n) == [k |-> "frac", n |-> n]
JSNaN == [k |-> "nan", n |-> 0]
JSInf == [k |-> "inf", n |-> 0]

\* a piece of text given by the integer its leading digits spell, or by
\* NoDigits when it starts with no digit
NoDigits == -1
\* parseInt(part)
ParseInt(part) == IF part = NoDigits THEN JSNaN ELSE JSInt(part)
\* parseInt(part) || 0 and Number(part) || 0, for parts that are digits or
\* start with no digit: NaN and 0 both give 0
OrZero(part) == IF part = NoDigits THEN 0 ELSE part

\* !x
Falsy(x) == x.k = "nan" \/ (x.k = "int" /\ x.n = 0)
\* isNaN(x)
IsNaN(x) == x.k = "nan"
\* x < c, x > c, x <= c for an integer c
Lt(x, c) == x.k \in {"int", "frac"} /\ x.n < c
Gt(x, c) == \/ x.k = "int" /\ x.n > c
            \/ x.k = "frac" /\ x.n >= c
            \/ x.k = "inf"
Le(x, c) == \/ x.k = "int" /\ x.n <= c
            \/ x.k = "frac" /\ x.n < c

MaxPort == 65535

\* what the specification calls a valid port and a valid pid
IsValidPort(x) == x.k = "int" /\ x.n >= 1 /\ x.n <= MaxPort
IsPositiveInteger(x) == x.k = "int" /\ x.n >= 1

Pids == 1 .. MaxPid
PortArgs == {JSInt(-1), JSInt(0), JSInt(1), JSInt(80), JSInt(8080),
             JSInt(65535), JSInt(65536), JSFrac(0), JSFrac(80), JSNaN, JSInf}
PidArgs == {JSInt(-1), JSInt(0), JSFrac(0), JSFrac(1), JSNaN}
              \cup {JSInt(p) : p \in 1 .. MaxPid + 1}

----------------------------------------------------------------------------
(* The operating system *)

NoPid == -1           \* a pid column that is not a number ("-", "invalid")

\* The lines a connection table can hold.  rport = 0 is the "*" / ":0" of a
\* listening socket.
SocketUniverse ==
    [pid : Pids, lport : {80, 8080}, rport : {0}, state : {"LISTEN"}]
      \cup [pid : {MaxPid}, lport : {80}, rport : {443}, state : {"ESTABLISHED"}]
      \cup [pid : {MaxPid}, lport : {5000}, rport : {80}, state : {"ESTABLISHED"}]
      \cup [pid : {NoPid, 0}, lport : {80}, rport : {0}, state : {"LISTEN"}]

RECURSIVE Tables(_)
Tables(n) ==
    IF n = 0 THEN {<<>>}
    ELSE LET shorter == Tables(n - 1)
         IN  shorter \cup {Append(t, s) : t \in shorter, s \in SocketUniverse}

\* the process table: what `ps` / `tasklist` print for a live pid
ProcessTable(pid) ==
    IF pid = 1 THEN [name |-> "node", command |-> "node server.js", user |-> "dev"]
    ELSE IF pid = 0
    THEN [name |-> "System Idle Process", command |-> "System Idle Process",
          user |-> "SYSTEM"]
    ELSE [name |-> "systemd", command |-> "/sbin/init", user |-> "root"]

NoPort == -1          \* an address column that does not end in ":<digits>"

\* The lines an enumeration of the listening sockets can print: the pid
\* column not a number, 0, or the first or the last pid of the process
\* table; the local address ending in a port number or not.
ScanUniverse ==
    [pid : {NoPid, 0, 1, MaxPid}, lport : {NoPort, 0, 80, 65536}, rport : {0},
     state : {"LISTEN"}]

RECURSIVE ScanTables(_)
ScanTables(n) ==
    IF n = 0 THEN {<<>>}
    ELSE LET shorter == ScanTables(n - 1)
         IN  shorter \cup {Append(t, s) : t \in shorter, s \in ScanUniverse}

----------------------------------------------------------------------------
(* Records and results *)

NoUser == "<absent>"
\* an enrichment field the record does not carry
Absent == "<absent>"
AbsentNum == -1       \* an absent numeric field (uptime, parentPid)
NoContext == [uptime |-> AbsentNum, startTime |-> Absent, parentPid |-> AbsentNum,
              parentProcessName |-> Absent, workingDirectory |-> Absent,
              serviceManager |-> Absent, serviceName |-> Absent]
NoRec == [pid |-> 0, port |-> JSInt(0), processName |-> "", command |-> "",
          user |-> NoUser, context |-> NoContext]
Null == [kind |-> "null", rec |-> NoRec]
Rec(r) == [kind |-> "record", rec |-> r]
\* an exception leaving a function body (execSync threw)
Throw == [kind |-> "throw", rec |-> NoRec]
\* try { body } catch { return null }
CatchNull(r) == IF r.kind = "throw" THEN Null ELSE r

\* how one lookup's native commands behave: the port query fails outright,
\* what the process-details query prints, whether the command-line query fails
DetailsOutcomes == {"ok", "fail", "empty", "short"}
Envs(plat) ==
    [lookupFails : BOOLEAN, details : DetailsOutcomes,
     cmdlineFails : IF plat = "win32" THEN BOOLEAN ELSE {FALSE},
     enrichFails : {{}}]

\* the native queries of getProcessContext, by platform
Queries(plat) ==
    IF plat = "darwin" THEN {"time", "parent", "cwd", "launchctl"}
    ELSE IF plat = "linux" THEN {"time", "parent", "cwd", "cgroup", "systemctl"}
    ELSE {"wmic", "parentName", "sc"}

\* a lookup any subset of whose enrichment queries fails
EnrichEnvs(plat) ==
    [lookupFails : BOOLEAN, details : DetailsOutcomes,
     cmdlineFails : IF plat = "win32" THEN BOOLEAN ELSE {FALSE},
     enrichFails : SUBSET Queries(plat)]

\* what the enrichment queries print for a pid of the process table: pid 1 is
\* An elapsed-time string is given by its split('-') pieces, each by its
\* split(':') parts: "2-10:30:45" is <<<<2>>, <<10, 30, 45>>>> and "30:45" is
\* <<<<30, 45>>>>.
NoEtime == <<<<>>>>

\* mutant: the days left out of the sum
ParseElapsedTimeNoDays(e) ==
    IF Len(e) > 1
    THEN LET t == e[2]
         IN  (IF Len(t) >= 1 THEN OrZero(t[1]) ELSE 0) * 60 * 60 * 1000
             + (IF Len(t) >= 2 THEN OrZero(t[2]) ELSE 0) * 60 * 1000
             + (IF Len(t) >= 3 THEN OrZero(t[3]) ELSE 0) * 1000
    ELSE LET parts == e[1]
         IN  IF Len(parts) = 3
             THEN OrZero(parts[1]) * 60 * 60 * 1000
                  + OrZero(parts[2]) * 60 * 1000 + OrZero(parts[3]) * 1000
             ELSE IF Len(parts) = 2
             THEN OrZero(parts[1]) * 60 * 1000 + OrZero(parts[2]) * 1000
             ELSE 0

\* MacOSAdapter.parseElapsedTime and LinuxAdapter.parseElapsedTime (the same
\* text): with a '-', the days are the piece before the first one and hours,
\* minutes and seconds the first three parts of the piece after it; without,
\* three parts are hours, minutes, seconds and two are minutes, seconds
ParseElapsedTime(e) ==
    IF Len(e) > 1
    THEN LET days == IF Len(e[1]) >= 1 THEN OrZero(e[1][1]) ELSE 0
             t == e[2]
             hours == IF Len(t) >= 1 THEN OrZero(t[1]) ELSE 0
             minutes == IF Len(t) >= 2 THEN OrZero(t[2]) ELSE 0
             seconds == IF Len(t) >= 3 THEN OrZero(t[3]) ELSE 0
         IN  days * 24 * 60 * 60 * 1000 + hours * 60 * 60 * 1000
             + minutes * 60 * 1000 + seconds * 1000
    ELSE LET parts == e[1]
         IN  IF Len(parts) = 3
             THEN OrZero(parts[1]) * 60 * 60 * 1000
                  + OrZero(parts[2]) * 60 * 1000 + OrZero(parts[3]) * 1000
             ELSE IF Len(parts) = 2
             THEN OrZero(parts[1]) * 60 * 1000 + OrZero(parts[2]) * 1000
             ELSE 0

\* a development server started from a shell, pid 2 a process its platform's
\* service manager started; the System Idle Process has nothing to print
ContextTable(plat, pid) ==
    IF pid = 1
    THEN [uptime |-> ParseElapsedTime(<<<<1, 30>>>>), startTime |-> "Dec 13 10:30:45 2025", ppid |-> 7,
          parentName |-> "zsh", cwd |-> "/work/projA", managed |-> FALSE,
          service |-> Absent]
    ELSE IF pid = 0
    THEN [uptime |-> AbsentNum, startTime |-> Absent, ppid |-> 0,
          parentName |-> Absent, cwd |-> Absent, managed |-> FALSE,
          service |-> Absent]
    ELSE [uptime |-> ParseElapsedTime(<<<<1, 0, 0>>>>), startTime |-> "Dec 13 09:00:00 2025", ppid |-> 4,
          parentName |-> IF plat = "win32" THEN "services.exe"
                         ELSE IF plat = "darwin" THEN "launchd" ELSE "systemd",
          cwd |-> "/", managed |-> TRUE, service |-> "web.service"]

Ctx(c) == [kind |-> "context", ctx |-> c]
ThrowContext == [kind |-> "throw", ctx |-> NoContext]

\* mutant: an enrichment query outside any try/catch
TryQueryUncaught(failed, before, after) ==
    IF before.kind = "throw" THEN before
    ELSE IF failed THEN ThrowContext
    ELSE Ctx(after)

\* try { <query>; context.<fields> = ... } catch { }, run after the steps that
\* gave `before`: a failed query leaves the context as it was
TryQuery(failed, before, after) ==
    IF before.kind = "throw" THEN before
    ELSE IF failed THEN before
    ELSE Ctx(after)

\* String.prototype.toLowerCase, for the names and terms of the model
ToLowerCase(s) ==
    CASE s = "System Idle Process" -> "system idle process"
      [] s = "System" -> "system"
      [] s = "WindowServer" -> "windowserver"
      [] s = "NetworkManager" -> "networkmanager"
      [] s = "NODE" -> "node"
      [] s = "Sys" -> "sys"
      [] OTHER -> s

\* String.prototype.includes, for the lowercased names of the process table
\* and the lowercased list entries and search terms of the model
Includes(s, t) ==
    \/ t = s
    \/ t = ""
    \/ s = "systemd" /\ t \in {"system", "sys"}
    \/ s = "system idle process" /\ t \in {"system", "sys"}
    \/ s = "services.exe" /\ t = "services"

\* ":<port>" occurs in the text "<addr>:<q>": the digits of port begin q's
RECURSIVE PrefixOf(_, _)
PrefixOf(p, q) == q = p \/ (q >= 10 /\ PrefixOf(p, q \div 10))

\* grep / findstr ":<port>" on a line: the local or the remote address
TextMatch(x, s) ==
    x.k = "int" /\ (PrefixOf(x.n, s.lport) \/ PrefixOf(x.n, s.rport))

(* MacOSAdapter *)

\* the four try blocks in turn, each on the context the one before left
MacOSGetProcessContext(pid, fails) ==
    LET t == ContextTable("darwin", pid)
        \* ps -p <pid> -o etime=,lstart=
        Time(c0) == TryQuery("time" \in fails, c0,
                [c0.ctx EXCEPT !.uptime = t.uptime, !.startTime = t.startTime])
        \* ps -p <pid> -o ppid=,ppidcmd=
        Parent(c1) == TryQuery("parent" \in fails, c1,
                IF t.ppid > 0
                THEN [c1.ctx EXCEPT !.parentPid = t.ppid,
                                    !.parentProcessName = t.parentName]
                ELSE c1.ctx)
        \* ps -p <pid> -o cwd=
        Cwd(c2) == TryQuery("cwd" \in fails, c2,
                [c2.ctx EXCEPT !.workingDirectory = t.cwd])
        \* launchctl list | grep "^<pid>\s": grep exits non-zero without a match
        Launchctl(c3) == TryQuery("launchctl" \in fails \/ ~t.managed, c3,
                [c3.ctx EXCEPT !.serviceManager = "launchd",
                               !.serviceName = t.service])
    IN  CHOOSE c4 \in {Launchctl(c3) : c3 \in
                 {Cwd(c2) : c2 \in
                    {Parent(c1) : c1 \in {Time(Ctx(NoContext))}}}} : TRUE

MacOSGetProcessDetails(pid, port, live, env) ==
    CatchNull(
      IF env.details = "fail" \/ pid \notin live
      THEN Throw                               \* ps exits non-zero
      ELSE IF env.details = "empty" THEN Null  \* !psResult
      ELSE IF env.details = "short" THEN Null  \* parts.length < 3
      ELSE LET context == MacOSGetProcessContext(pid, env.enrichFails)
           IN  IF context.kind = "throw" THEN Throw
               ELSE Rec([pid |-> pid, port |-> port,
                         processName |-> ProcessTable(pid).name,
                         command |-> ProcessTable(pid).command,
                         user |-> ProcessTable(pid).user,
                         context |-> context.ctx]))

\* lsof -ti :<port> prints the pid of every process it can see that has a
\* socket whose local or remote port is <port>, whatever the socket's state
LsofMatches(x, s) ==
    x.k = "int" /\ s.pid > 0 /\ (s.lport = x.n \/ s.rport = x.n)

\* mutant: findProcessByPort without its try/catch
MacOSFindProcessByPortUncaught(port, table, live, env) ==
    LET lines == SelectSeq(table, LAMBDA s : LsofMatches(port, s))
    IN  IF env.lookupFails \/ Len(lines) = 0
        THEN Throw
        ELSE LET pid == Head(lines).pid
             IN  IF pid <= 0 THEN Null
                 ELSE MacOSGetProcessDetails(pid, port, live, env)

MacOSFindProcessByPort(port, table, live, env) ==
    CatchNull(
      LET lines == SelectSeq(table, LAMBDA s : LsofMatches(port, s))
      IN  IF env.lookupFails \/ Len(lines) = 0
          THEN Throw                           \* lsof exits non-zero
          ELSE LET pid == Head(lines).pid      \* parseInt reads the first line
               IN  IF pid <= 0 THEN Null
                   ELSE MacOSGetProcessDetails(pid, port, live, env))

(* LinuxAdapter *)

\* the try blocks in turn, each on the context the one before left
LinuxGetProcessContext(pid, fails) ==
    LET t == ContextTable("linux", pid)
        \* ps -p <pid> -o etime=,lstart=
        Time(c0) == TryQuery("time" \in fails, c0,
                [c0.ctx EXCEPT !.uptime = t.uptime, !.startTime = t.startTime])
        \* ps -p <pid> -o ppid=,ppidcmd=
        Parent(c1) == TryQuery("parent" \in fails, c1,
                IF t.ppid > 0
                THEN [c1.ctx EXCEPT !.parentPid = t.ppid,
                                    !.parentProcessName = t.parentName]
                ELSE c1.ctx)
        \* ps -p <pid> -o cwd=
        Cwd(c2) == TryQuery("cwd" \in fails, c2,
                [c2.ctx EXCEPT !.workingDirectory = t.cwd])
        \* cat /proc/<pid>/cgroup, cgroup.includes('systemd')
        Cgroup(c3) == TryQuery("cgroup" \in fails, c3,
                IF t.managed THEN [c3.ctx EXCEPT !.serviceManager = "systemd"]
                ELSE c3.ctx)
        \* systemctl status <pid>, run when the cgroup names systemd
        Systemctl(c4) == IF "cgroup" \in fails \/ ~t.managed THEN c4
              ELSE TryQuery("systemctl" \in fails, c4,
                     [c4.ctx EXCEPT !.serviceName = t.service])
    IN  CHOOSE c5 \in {Systemctl(c4) : c4 \in
                 {Cgroup(c3) : c3 \in
                    {Cwd(c2) : c2 \in
                       {Parent(c1) : c1 \in {Time(Ctx(NoContext))}}}}} : TRUE

LinuxGetProcessDetails(pid, port, live, env) ==
    CatchNull(
      IF env.details = "fail" \/ pid \notin live
      THEN Throw
      ELSE IF env.details = "empty" THEN Null
      ELSE IF env.details = "short" THEN Null
      ELSE LET context == LinuxGetProcessContext(pid, env.enrichFails)
           IN  IF context.kind = "throw" THEN Throw
               ELSE Rec([pid |-> pid, port |-> port,
                         processName |-> ProcessTable(pid).name,
                         command |-> ProcessTable(pid).command,
                         user |-> ProcessTable(pid).user,
                         context |-> context.ctx]))

\* ss -lptn 'sport = :<port>': the listening sockets whose local port is <port>
SSMatches(x, s) == x.k = "int" /\ s.state = "LISTEN" /\ s.lport = x.n

FindWithSS(port, table, live, env) ==
    CatchNull(
      IF env.lookupFails THEN Throw
      ELSE LET lines == SelectSeq(table, LAMBDA s : SSMatches(port, s))
               \* result.match(/pid=(\d+)/): the first pid= anywhere in the output
               hits == SelectSeq(lines, LAMBDA s : s.pid # NoPid)
           IN  IF Len(hits) = 0 THEN Null
               ELSE IF Head(hits).pid <= 0 THEN Null
               ELSE LinuxGetProcessDetails(Head(hits).pid, port, live, env))

\* netstat -ltnp | grep :<port>: the listening sockets whose line contains
\* the text ":<port>"
NetstatGrepMatches(x, s) == s.state = "LISTEN" /\ TextMatch(x, s)

FindWithNetstat(port, table, live, env) ==
    CatchNull(
      LET lines == SelectSeq(table, LAMBDA s : NetstatGrepMatches(port, s))
          \* the loop skips a line whose pid column is no positive number
          hits == SelectSeq(lines, LAMBDA s : s.pid # NoPid /\ s.pid > 0)
      IN  IF env.lookupFails \/ Len(lines) = 0
          THEN Throw                           \* grep exits non-zero
          ELSE IF Len(hits) = 0 THEN Null
          ELSE LinuxGetProcessDetails(Head(hits).pid, port, live, env))

\* hasSSCommand: `which ss`, its failure caught
HasSSCommand(ss) == ss

LinuxFindProcessByPort(port, table, live, ss, env) ==
    CatchNull(
      IF HasSSCommand(ss) THEN FindWithSS(port, table, live, env)
      ELSE FindWithNetstat(port, table, live, env))

(* WindowsAdapter *)

\* the pids tasklist can list: the live processes and the System Idle
\* Process, pid 0
WindowsTasks(live) == live \cup {0}

\* the try blocks in turn, each on the context the one before left
WindowsGetProcessContext(pid, fails) ==
    LET t == ContextTable("win32", pid)
        \* wmic process ... get CreationDate,ParentProcessId,ExecutablePath
        Wmic(c0) == TryQuery("wmic" \in fails, c0,
                [c0.ctx EXCEPT !.startTime = t.startTime, !.uptime = t.uptime,
                               !.parentPid = IF t.ppid > 0 THEN t.ppid ELSE AbsentNum,
                               !.workingDirectory = t.cwd])
        \* wmic process where "ProcessId=<parentPid>" get Name, inside the
        \* first query's try block and in a try block of its own
        ParentName(c1) == IF "wmic" \in fails \/ t.ppid <= 0 THEN c1
              ELSE TryQuery("parentName" \in fails, c1,
                     [c1.ctx EXCEPT !.parentProcessName = t.parentName])
        \* sc query type= service state= all, then the test of the parent
        Sc(c2) == TryQuery("sc" \in fails, c2,
                IF c2.ctx.parentPid = 4
                     \/ (c2.ctx.parentProcessName # Absent
                         /\ Includes(ToLowerCase(c2.ctx.parentProcessName),
                                     "services"))
                THEN [c2.ctx EXCEPT !.serviceManager = "windows-service"]
                ELSE c2.ctx)
    IN  CHOOSE c3 \in {Sc(c2) : c2 \in
                 {ParentName(c1) : c1 \in {Wmic(Ctx(NoContext))}}} : TRUE

WindowsGetProcessDetails(pid, port, live, env) ==
    CatchNull(
      IF env.details = "fail" THEN Throw       \* tasklist fails
      ELSE IF pid \notin WindowsTasks(live) THEN Null   \* "INFO: No tasks"
      ELSE IF env.details = "empty" THEN Null  \* !result
      ELSE IF env.details = "short" THEN Null  \* parts.length < 2
      ELSE LET context == WindowsGetProcessContext(pid, env.enrichFails)
           IN  IF context.kind = "throw" THEN Throw
               ELSE Rec([pid |-> pid, port |-> port,
                         processName |-> ProcessTable(pid).name,
                         command |-> IF env.cmdlineFails THEN ProcessTable(pid).name
                                     ELSE ProcessTable(pid).command,
                         user |-> NoUser,
                         context |-> context.ctx]))

\* line.includes('LISTENING')
WindowsLineAccepted(s) == s.state = "LISTEN"

WindowsFindProcessByPort(port, table, live, env) ==
    CatchNull(
      LET lines == SelectSeq(table, LAMBDA s : TextMatch(port, s))
          \* the loop skips a line that is not LISTENING or whose pid column is
          \* no positive number
          hits == SelectSeq(lines,
                    LAMBDA s : WindowsLineAccepted(s) /\ s.pid # NoPid /\ s.pid > 0)
      IN  IF env.lookupFails \/ Len(lines) = 0
          THEN Throw                           \* findstr exits non-zero
          ELSE IF Len(hits) = 0 THEN Null
          ELSE WindowsGetProcessDetails(Head(hits).pid, port, live, env))

\* PlatformAdapter.findProcessByPort of the adapter ProcessService selected
AdapterFindProcessByPort(plat, port, table, live, ss, env) ==
    IF plat = "darwin" THEN MacOSFindProcessByPort(port, table, live, env)
    ELSE IF plat = "linux" THEN LinuxFindProcessByPort(port, table, live, ss, env)
    ELSE WindowsFindProcessByPort(port, table, live, env)

----------------------------------------------------------------------------
(* getAllListeningPorts *)

ListResult(l) == [kind |-> "list", list |-> l]
ThrowList == [kind |-> "throw", list |-> <<>>]
\* try { body } catch { return [] }
CatchEmpty(r) == IF r.kind = "throw" THEN ListResult(<<>>) ELSE r

\* the loop reaches the duplicate test for a line: on macOS when the address
\* column ends in a port (the pid column is not tested); with ss, netstat and
\* on Windows when, besides, the pid column is a number
ScanLineKept(tool, s) ==
    IF tool = "lsof" THEN s.lport # NoPort
    ELSE s.lport # NoPort /\ s.pid # NoPid

\* getProcessDetails of the adapter that runs the tool
ScanDetails(tool, pid, port, live, env) ==
    IF tool = "lsof" THEN MacOSGetProcessDetails(pid, port, live, env)
    ELSE IF tool \in {"ss", "netstat"} THEN LinuxGetProcessDetails(pid, port, live, env)
    ELSE WindowsGetProcessDetails(pid, port, live, env)

\* mutant: no line counts as seen
SeenHasNever(seen, pid, port) == FALSE

\* seen.has(`${pid}:${port}`)
SeenHas(seen, pid, port) == <<pid, port>> \in seen

\* for (const line of lines) { ... }: the records pushed, in order
RECURSIVE ScanLoop(_, _, _, _, _, _)
ScanLoop(tool, lines, seen, processes, live, env) ==
    IF lines = <<>> THEN processes
    ELSE LET s == Head(lines)
         IN  IF ~ScanLineKept(tool, s) \/ SeenHas(seen, s.pid, s.lport)
             THEN ScanLoop(tool, Tail(lines), seen, processes, live, env)
             ELSE LET info == ScanDetails(tool, s.pid, JSInt(s.lport), live, env)
                  IN  ScanLoop(tool, Tail(lines), seen \cup {<<s.pid, s.lport>>},
                               IF info.kind = "record"
                               THEN Append(processes, info.rec) ELSE processes,
                               live, env)

\* mutant: getAllListeningPorts without its try/catch
MacOSGetAllListeningPortsUncaught(table, live, env) ==
    IF env.lookupFails \/ Len(table) = 0
    THEN ThrowList
    ELSE ListResult(ScanLoop("lsof", table, {}, <<>>, live, env))

\* lsof -iTCP -sTCP:LISTEN -n -P exits non-zero when it cannot run and when it
\* lists nothing
MacOSGetAllListeningPorts(table, live, env) ==
    CatchEmpty(
      IF env.lookupFails \/ Len(table) = 0
      THEN ThrowList
      ELSE ListResult(ScanLoop("lsof", table, {}, <<>>, live, env)))

\* ss -lptn
GetAllWithSS(table, live, env) ==
    CatchEmpty(
      IF env.lookupFails THEN ThrowList
      ELSE ListResult(ScanLoop("ss", table, {}, <<>>, live, env)))

\* netstat -ltnp 2>/dev/null
GetAllWithNetstat(table, live, env) ==
    CatchEmpty(
      IF env.lookupFails THEN ThrowList
      ELSE ListResult(ScanLoop("netstat", table, {}, <<>>, live, env)))

LinuxGetAllListeningPorts(table, live, ss, env) ==
    CatchEmpty(
      IF HasSSCommand(ss) THEN GetAllWithSS(table, live, env)
      ELSE GetAllWithNetstat(table, live, env))

\* netstat -ano | findstr LISTENING: findstr exits non-zero when no line matches
WindowsGetAllListeningPorts(table, live, env) ==
    CatchEmpty(
      IF env.lookupFails \/ Len(table) = 0
      THEN ThrowList
      ELSE ListResult(ScanLoop("findstr", table, {}, <<>>, live, env)))

\* PlatformAdapter.getAllListeningPorts of the adapter ProcessService selected
AdapterGetAllListeningPorts(plat, table, live, ss, env) ==
    IF plat = "darwin" THEN MacOSGetAllListeningPorts(table, live, env)
    ELSE IF plat = "linux" THEN LinuxGetAllListeningPorts(table, live, ss, env)
    ELSE WindowsGetAllListeningPorts(table, live, env)

----------------------------------------------------------------------------
(* Adapter killProcess: the value returned after the liveness recheck *)

\* what the recheck command meets: the tool itself fails, the pid is gone,
\* or the pid is still listed
Observed(pid, live, toolFails) ==
    IF toolFails THEN "error"
    ELSE IF pid.k = "int" /\ pid.n \in live THEN "alive"
    ELSE "absent"

\* mutant: the forceful signal whatever the flag
SignalAlwaysForceful(force) == "forceful"

\* const signal = force ? '-9' : '-15';  const flag = force ? '/F' : ''
Signal(force) == IF force THEN "forceful" ELSE "graceful"

\* mutant: the two return values of the recheck swapped
UnixRecheckInverted(observed) == observed = "alive"

\* try { execSync(`ps -p ${pid}`); return false } catch { return true }
\* ps exits non-zero when the pid is gone, and throws as well when it cannot run
UnixRecheck(observed) == IF observed = "alive" THEN FALSE ELSE TRUE

\* mutant: a failed recheck reported as a failed kill
WindowsRecheckStrict(observed) == observed = "absent"

\* try { tasklist ...; return result.includes('INFO: No tasks') } catch { return true }
WindowsRecheck(observed) ==
    IF observed = "error" THEN TRUE
    ELSE IF observed = "absent" THEN TRUE
    ELSE FALSE

AdapterRecheck(plat, observed) ==
    IF plat = "win32" THEN WindowsRecheck(observed) ELSE UnixRecheck(observed)

IsLive(pid, live) == pid.k = "int" /\ pid.n \in live

\* mutant: the termination command's exit status ignored
RequestSucceedsUnchecked(pid, live, refused) == TRUE

\* the termination command exits zero: the pid exists and the caller may
\* signal it; otherwise execSync throws and the outer catch returns false
RequestSucceeds(pid, live, refused) == IsLive(pid, live) /\ ~refused

----------------------------------------------------------------------------
(* ProcessService *)

\* the values of os.platform() considered
AllPlatforms == {"darwin", "linux", "win32", "freebsd", "sunos"}
SupportedPlatforms == {"darwin", "linux", "win32"}

\* mutant: the Windows adapter as the default case
CreatePlatformAdapterDefault(plat) ==
    IF plat = "darwin" THEN "MacOSAdapter"
    ELSE IF plat = "linux" THEN "LinuxAdapter"
    ELSE "WindowsAdapter"

\* switch (os.platform()) { ...; default: throw new Error(...) }
CreatePlatformAdapter(plat) ==
    IF plat = "darwin" THEN "MacOSAdapter"
    ELSE IF plat = "linux" THEN "LinuxAdapter"
    ELSE IF plat = "win32" THEN "WindowsAdapter"
    ELSE "throw"

ValidatePort(port) ==
    IF Falsy(port) \/ IsNaN(port) THEN "Port must be a number"
    ELSE IF Lt(port, 1) \/ Gt(port, MaxPort) THEN "Port must be between 1 and 65535"
    ELSE "ok"

\* if (!pid || pid <= 0) throw new Error('Invalid PID')
PidRejected(pid) == Falsy(pid) \/ Le(pid, 0)

\* the port arguments findByPort lets through
ValidPorts == {p \in PortArgs : ValidatePort(p) = "ok"}

----------------------------------------------------------------------------
(* StorageService *)

\* a === b on numbers: NaN equals nothing
StrictEq(a, b) == ~IsNaN(a) /\ ~IsNaN(b) /\ a = b

\* a Date object, and the ISO string JSON.stringify writes for it
Date(t) == [type |-> "Date", ms |-> t]
ToJSON(d) == [type |-> "string", ms |-> d.ms]
\* new Date(<ISO string>)
NewDate(v) == [type |-> "Date", ms |-> v.ms]

NoMapping == [port |-> JSNaN, projectName |-> Absent, projectPath |-> Absent,
              autoKill |-> FALSE, lastUsed |-> Date(AbsentNum)]

\* createDefaultConfig: the configuration it builds
DefaultConfig == [portMappings |-> <<>>, autoKillEnabled |-> FALSE,
                  confirmKill |-> TRUE, version |-> "1.0.0"]

\* this.config
Config == [portMappings |-> mappings, autoKillEnabled |-> autoKillEnabled,
           confirmKill |-> confirmKill, version |-> "1.0.0"]

\* JSON.stringify(config, null, 2): a Date becomes its ISO string
Stringify(config) ==
    IF "portMappings" \in DOMAIN config
    THEN [config EXCEPT !.portMappings =
            [i \in DOMAIN config.portMappings |->
               [config.portMappings[i] EXCEPT !.lastUsed = ToJSON(@)]]]
    ELSE config

NoFile == [kind |-> "missing", doc |-> Stringify(DefaultConfig)]
Written(config) == [kind |-> "json", doc |-> Stringify(config)]

\* mutant: saveConfig that writes nothing
SaveConfigSkipped(f, config, writeFails) == f

\* try { fs.writeFileSync(path, JSON.stringify(config)) } catch { console.error }
\* : a failed write leaves the file as it was and the caller is not told
SaveConfig(f, config, writeFails) ==
    IF writeFails THEN f ELSE Written(config)

\* a property of a parsed document is there or undefined
HasMappings(config) == "portMappings" \in DOMAIN config

\* oldConfig.portMappings || [], oldConfig.autoKillEnabled || false
MigrateFromV0toV1(oldConfig) ==
    [portMappings |-> IF HasMappings(oldConfig) THEN oldConfig.portMappings
                      ELSE <<>>,
     autoKillEnabled |-> IF "autoKillEnabled" \in DOMAIN oldConfig
                         THEN oldConfig.autoKillEnabled ELSE FALSE,
     confirmKill |-> TRUE, version |-> "1.0.0"]

\* if (!config.version) migrate; if (config.portMappings) revive the dates;
\* return config as Config: no field is checked or filled in
ValidateAndMigrateConfig(doc) ==
    LET config == IF "version" \notin DOMAIN doc \/ doc.version = Absent
                  THEN MigrateFromV0toV1(doc) ELSE doc
    IN  IF HasMappings(config)
        THEN [config EXCEPT !.portMappings =
                [i \in DOMAIN config.portMappings |->
                   [config.portMappings[i] EXCEPT !.lastUsed = NewDate(@)]]]
        ELSE config

\* the try block of loadConfig throws: JSON.parse on text that is not JSON
\* ("corrupt"), validateAndMigrateConfig reading .version of the JSON value
\* null ("null")
LoadThrows(f) == f.kind \in {"corrupt", "null"}

\* loadConfig: the configuration a StorageService constructed on file f holds
LoadConfig(f) ==
    IF f.kind = "missing" THEN DefaultConfig
    ELSE IF LoadThrows(f) THEN DefaultConfig    \* catch: createDefaultConfig
    ELSE ValidateAndMigrateConfig(f.doc)

\* mutant: the existing mapping of the port kept
AddPortMappingNoFilter(ms, m, date) ==
    Append(ms, [port |-> m.port, projectName |-> m.projectName,
                projectPath |-> m.projectPath, autoKill |-> m.autoKill,
                lastUsed |-> date])

\* StorageService.addPortMapping: the new config.portMappings
AddPortMapping(ms, m, date) ==
    Append(SelectSeq(ms, LAMBDA x : ~StrictEq(x.port, m.port)),
           [port |-> m.port, projectName |-> m.projectName,
            projectPath |-> m.projectPath, autoKill |-> m.autoKill,
            lastUsed |-> date])

\* StorageService.removePortMapping: the new config.portMappings
RemovePortMapping(ms, port) ==
    SelectSeq(ms, LAMBDA x : ~StrictEq(x.port, port))

\* StorageService.getPortMapping: find(...) || null
GetPortMapping(ms, port) ==
    LET hits == SelectSeq(ms, LAMBDA x : StrictEq(x.port, port))
    IN  IF hits = <<>> THEN NoMapping ELSE Head(hits)

\* a.port - b.port > 0, for the numbers a port can be
PortAfter(a, b) ==
    \/ a.n > b.n
    \/ a.n = b.n /\ a.k = "frac" /\ b.k = "int"

\* Array.prototype.sort((a, b) => a.port - b.port), which is stable: m put
\* after the last element of the sorted sequence it is not smaller than
RECURSIVE InsertSorted(_, _)
InsertSorted(sorted, m) ==
    IF sorted = <<>> THEN <<m>>
    ELSE IF PortAfter(Head(sorted).port, m.port)
         THEN <<m>> \o sorted
         ELSE <<Head(sorted)>> \o InsertSorted(Tail(sorted), m)

RECURSIVE SortByPort(_)
SortByPort(ms) ==
    IF ms = <<>> THEN <<>>
    ELSE InsertSorted(SortByPort(SubSeq(ms, 1, Len(ms) - 1)), ms[Len(ms)])

\* MacOSAdapter / LinuxAdapter / WindowsAdapter .isCriticalProcess, for the
\* names of the process table: the lowercased name contains a lowercased
\* entry of the platform's list.  "systemd" is an entry on Darwin and Linux
\* and contains the Windows entry "System"; "node" contains no entry.
CriticalProcesses(plat) ==
    IF plat = "darwin"
    THEN {"systemd", "init", "kernel", "launchd", "WindowServer", "loginwindow"}
    ELSE IF plat = "linux"
    THEN {"systemd", "init", "kernel", "dbus", "NetworkManager", "sshd"}
    ELSE {"svchost.exe", "csrss.exe", "winlogon.exe", "explorer.exe", "System",
          "smss.exe", "services.exe", "lsass.exe"}

\* mutant: no process is critical
IsCriticalProcessNever(plat, name) == FALSE

\* criticalProcesses.some(name => processName.toLowerCase().includes(
\* name.toLowerCase())), worked out once for the names of the process table
ProcessNames == {ProcessTable(pid).name : pid \in 0..MaxPid}
CriticalNames ==
    [plat \in {"darwin", "linux", "win32"} |->
       {n \in ProcessNames :
          \E c \in CriticalProcesses(plat) :
             Includes(ToLowerCase(n), ToLowerCase(c))}]

IsCriticalProcess(plat, name) == name \in CriticalNames[plat]

----------------------------------------------------------------------------
(* State *)

Ev(e, pid, b) == [ev |-> e, pid |-> pid, b |-> b]
NoNum == JSInt(0)

RetNone == [kind |-> "none", rec |-> NoRec, b |-> FALSE, msg |-> ""]
RetThrow(m) == [kind |-> "throw", rec |-> NoRec, b |-> FALSE, msg |-> m]
RetFind(r) == [kind |-> r.kind, rec |-> r.rec, b |-> FALSE, msg |-> ""]
RetBool(v) == [kind |-> "bool", rec |-> NoRec, b |-> v, msg |-> ""]
RetVoid(m) == [kind |-> "void", rec |-> NoRec, b |-> FALSE, msg |-> m]
RetList(k) == [kind |-> k, rec |-> NoRec, b |-> FALSE, msg |-> ""]

NoArg == [port |-> NoNum, forceFlag |-> FALSE, pid |-> NoNum, force |-> FALSE]
\* the adapter's killProcess call: its position, its arguments, whether the
\* pid was live when the termination command ran, what the recheck met, and
\* the value returned
KillIdle == [pc |-> "none", pid |-> NoNum, force |-> FALSE, wasLive |-> FALSE,
             observed |-> "none", ret |-> FALSE]
KillStart(pid, force) ==
    [pc |-> "request", pid |-> pid, force |-> force, wasLive |-> FALSE,
     observed |-> "none", ret |-> FALSE]

NoEnv == [lookupFails |-> FALSE, details |-> "none", cmdlineFails |-> FALSE,
          enrichFails |-> {}]

NotReloaded == [portMappings |-> <<>>, autoKillEnabled |-> FALSE,
               confirmKill |-> FALSE, version |-> Absent]

\* the directories a run can start in, and the name
\* ProjectService.getCurrentProjectName finds there
ProjectDirs == {"/work/projA", "/work/projB"}
ProjectName(dir) == IF dir = "/work/projA" THEN "projA" ELSE "projB"

\* getCurrentProjectName() and getCurrentProjectPath()
CurrentProject == [name |-> ProjectName(cwd), path |-> cwd]

\* checkAndKill before it starts: the mappings still to look up, the
\* portsInUse list, the index of the entry being killed, killedCount
AutoIdle == [todo |-> <<>>, inUse |-> <<>>, idx |-> 0, killed |-> 0]

\* a supported platform, the service constructed
InitOS ==
    /\ platform \in SupportedPlatforms
    /\ adapter = CreatePlatformAdapter(platform)
    /\ netTable = <<>>
    /\ procs \in SUBSET Pids
    /\ hasSS \in (IF platform = "linux" THEN BOOLEAN ELSE {FALSE})

\* ScanCommand.execute called with no option: range and process undefined
\* (a range is the sequence of the parts around its "-"), system not false
NoOptions == [range |-> <<>>, process |-> Absent, system |-> TRUE]

\* two processes that have not constructed their StorageService yet
NoInstances ==
    [i \in {1, 2} |-> [pc |-> "new", config |-> NotReloaded, written |-> FALSE]]

InitCall ==
    /\ op = "none"
    /\ pc = "idle"
    /\ arg = NoArg
    /\ kill = KillIdle
    /\ found = NoRec
    /\ ret = RetNone
    /\ log = <<>>
    /\ lookupEnv = NoEnv
    /\ ports = <<>>
    /\ auto = AutoIdle
    /\ options = NoOptions
    /\ shown = <<>>
    /\ etime = NoEtime
    /\ elapsed = 0
    /\ inst = NoInstances

\* the StorageService of the run loaded the file an earlier run wrote
InitStore ==
    /\ cwd = "/work/projA"
    /\ file = Written(Config)
    /\ now = 0
    /\ added = [p \in ValidPorts |-> NoMapping]
    /\ reloaded = NotReloaded
    /\ lastWrite = "none"

\* any platform, before `new ProcessService()`
InitPlatform ==
    /\ platform \in AllPlatforms
    /\ adapter = "none"
    /\ netTable = <<>>
    /\ procs \in SUBSET Pids
    /\ hasSS \in (IF platform = "linux" THEN BOOLEAN ELSE {FALSE})
    /\ op = "none"
    /\ pc = "new"
    /\ arg = NoArg
    /\ kill = KillIdle
    /\ found = NoRec
    /\ ret = RetNone
    /\ log = <<>>
    /\ lookupEnv = NoEnv
    /\ ports = <<>>
    /\ auto = AutoIdle
    /\ options = NoOptions
    /\ shown = <<>>
    /\ etime = NoEtime
    /\ elapsed = 0
    /\ inst = NoInstances
    /\ cwd = "/work/projA"
    /\ confirmKill = TRUE
    /\ mappings = <<>>
    /\ inProject = FALSE
    /\ autoKillEnabled = FALSE
    /\ InitStore

\* a StorageService just constructed on a machine without a config file:
\* createDefaultConfig's write succeeded or failed
InitStorage ==
    /\ platform \in SupportedPlatforms
    /\ adapter = CreatePlatformAdapter(platform)
    /\ netTable = <<>>
    /\ procs = {}
    /\ hasSS = FALSE
    /\ InitCall
    /\ confirmKill = DefaultConfig.confirmKill
    /\ mappings = DefaultConfig.portMappings
    /\ autoKillEnabled = DefaultConfig.autoKillEnabled
    /\ inProject = FALSE
    /\ file \in {NoFile, Written(DefaultConfig)}
    /\ cwd = "/work/projA"
    /\ now = 0
    /\ added = [p \in ValidPorts |-> NoMapping]
    /\ reloaded = NotReloaded
    /\ lastWrite = "none"

----------------------------------------------------------------------------
(* StorageService, called directly *)

StoragePorts == {JSInt(80), JSInt(8080)}
StorageProjects == {[name |-> "projA", path |-> "/work/projA"],
                    [name |-> "projB", path |-> "/work/projB"]}
MappingArgs ==
    {[port |-> p, projectName |-> pr.name, projectPath |-> pr.path, autoKill |-> a] :
       p \in StoragePorts, pr \in StorageProjects, a \in BOOLEAN}

\* what every call of this section leaves alone
callVars == <<osVars, adapter, netTable, procs, inProject, pc, arg, kill, found,
              ret, lookupEnv, ports, cwd, auto, cmdVars>>

StorageAddPortMapping(m) ==
    /\ pc = "idle" /\ now < MaxStorageOps /\ reloaded = NotReloaded
    /\ \E writeFails \in BOOLEAN :
         LET ms == AddPortMapping(mappings, m, Date(now))
         IN  /\ mappings' = ms
             /\ file' = SaveConfig(file, [Config EXCEPT !.portMappings = ms],
                                   writeFails)
             /\ added' = [added EXCEPT ![m.port] = ms[Len(ms)]]
             /\ lastWrite' = IF writeFails THEN "failed" ELSE "ok"
    /\ op' = "addPortMapping"
    /\ log' = Append(log, Ev("addPortMapping", m.port, m.autoKill))
    /\ now' = now + 1
    /\ UNCHANGED <<callVars, confirmKill, autoKillEnabled, reloaded>>

StorageRemovePortMapping(port) ==
    /\ pc = "idle" /\ now < MaxStorageOps /\ reloaded = NotReloaded
    /\ \E writeFails \in BOOLEAN :
         LET ms == RemovePortMapping(mappings, port)
         IN  /\ mappings' = ms
             /\ file' = SaveConfig(file, [Config EXCEPT !.portMappings = ms],
                                   writeFails)
             /\ added' = [added EXCEPT ![port] = NoMapping]
             /\ lastWrite' = IF writeFails THEN "failed" ELSE "ok"
    /\ op' = "removePortMapping"
    /\ log' = Append(log, Ev("removePortMapping", port, FALSE))
    /\ now' = now + 1
    /\ UNCHANGED <<callVars, confirmKill, autoKillEnabled, reloaded>>

StorageSetAutoKill(enabled) ==
    /\ pc = "idle" /\ now < MaxStorageOps /\ reloaded = NotReloaded
    /\ autoKillEnabled' = enabled
    /\ \E writeFails \in BOOLEAN :
         /\ file' = SaveConfig(file, [Config EXCEPT !.autoKillEnabled = enabled],
                               writeFails)
         /\ lastWrite' = IF writeFails THEN "failed" ELSE "ok"
    /\ op' = "setAutoKill"
    /\ log' = Append(log, Ev("setAutoKill", NoNum, enabled))
    /\ now' = now + 1
    /\ UNCHANGED <<callVars, confirmKill, mappings, added, reloaded>>

StorageSetConfirmKill(enabled) ==
    /\ pc = "idle" /\ now < MaxStorageOps /\ reloaded = NotReloaded
    /\ confirmKill' = enabled
    /\ \E writeFails \in BOOLEAN :
         /\ file' = SaveConfig(file, [Config EXCEPT !.confirmKill = enabled],
                               writeFails)
         /\ lastWrite' = IF writeFails THEN "failed" ELSE "ok"
    /\ op' = "setConfirmKill"
    /\ log' = Append(log, Ev("setConfirmKill", NoNum, enabled))
    /\ now' = now + 1
    /\ UNCHANGED <<callVars, autoKillEnabled, mappings, added, reloaded>>

\* this.config = this.createDefaultConfig(), which saves, then saveConfig again
StorageClearConfig ==
    /\ pc = "idle" /\ now < MaxStorageOps /\ reloaded = NotReloaded
    /\ mappings' = DefaultConfig.portMappings
    /\ autoKillEnabled' = DefaultConfig.autoKillEnabled
    /\ confirmKill' = DefaultConfig.confirmKill
    /\ \E firstFails, secondFails \in BOOLEAN :
         /\ file' = SaveConfig(SaveConfig(file, DefaultConfig, firstFails),
                               DefaultConfig, secondFails)
         /\ lastWrite' = IF firstFails /\ secondFails THEN "failed" ELSE "ok"
    /\ added' = [p \in ValidPorts |-> NoMapping]
    /\ op' = "clearConfig"
    /\ log' = Append(log, Ev("clearConfig", NoNum, FALSE))
    /\ now' = now + 1
    /\ UNCHANGED <<callVars, reloaded>>

\* getAllMappings sorts config.portMappings in place and saves nothing
StorageGetAllMappings ==
    /\ pc = "idle" /\ now < MaxStorageOps /\ reloaded = NotReloaded
    /\ mappings' = SortByPort(mappings)
    /\ op' = "getAllMappings"
    /\ log' = Append(log, Ev("getAllMappings", NoNum, FALSE))
    /\ now' = now + 1
    /\ UNCHANGED <<callVars, saveVars, confirmKill, autoKillEnabled, reloaded>>

\* new StorageService() in a later run: loadConfig, which writes the default
\* configuration when there is no file to read
NewStorageService ==
    /\ pc = "idle" /\ reloaded = NotReloaded /\ now > 0
    /\ reloaded' = LoadConfig(file)
    /\ \E writeFails \in BOOLEAN :
         file' = IF file.kind = "json" THEN file
                 ELSE SaveConfig(file, DefaultConfig, writeFails)
    /\ log' = IF file.kind # "missing" /\ LoadThrows(file)
              THEN Append(log, Ev("warn.corrupted", NoNum, FALSE)) ELSE log
    /\ pc' = "done"
    /\ UNCHANGED <<osVars, cfgVars, adapter, netTable, procs, op, arg, kill, found,
                   ret, lookupEnv, ports, autoKillEnabled, now, added,
                   lastWrite, cwd, auto, cmdVars>>

\* the files a failed or interrupted write, or an edit by hand, leaves behind
PartialDoc(autoKill, confirm) ==
    [autoKillEnabled |-> autoKill, confirmKill |-> confirm, version |-> "1.0.0"]
CorruptFiles ==
    {[kind |-> "corrupt", doc |-> Stringify(DefaultConfig)],
     [kind |-> "null", doc |-> Stringify(DefaultConfig)]}
    \cup {[kind |-> "json", doc |-> PartialDoc(a, c)] : a, c \in BOOLEAN}

InitLoad ==
    /\ InitStorage!1 /\ InitStorage!2 /\ InitStorage!3 /\ InitStorage!4
    /\ InitStorage!5 /\ InitStorage!6 /\ InitStorage!7 /\ InitStorage!8
    /\ InitStorage!9 /\ InitStorage!10
    /\ file \in CorruptFiles
    /\ cwd = "/work/projA"
    /\ now = 1
    /\ added = [p \in ValidPorts |-> NoMapping]
    /\ reloaded = NotReloaded
    /\ lastWrite = "none"

\* what a call on the StorageService constructed by NewStorageService leaves
\* alone
loadedVars == <<osVars, cfgVars, adapter, netTable, procs, arg, kill, found,
                lookupEnv, ports, autoKillEnabled, added, lastWrite, cwd, auto, cmdVars>>

\* addPortMapping on that instance: this.config.portMappings.filter(...)
LoadedAddPortMapping(m) ==
    /\ pc = "done" /\ reloaded # NotReloaded /\ now < MaxStorageOps
    /\ IF HasMappings(reloaded)
       THEN /\ reloaded' = [reloaded EXCEPT !.portMappings =
                                             AddPortMapping(@, m, Date(now))]
            /\ \E writeFails \in BOOLEAN :
                 file' = SaveConfig(file, reloaded', writeFails)
            /\ ret' = RetVoid("")
            /\ pc' = "done"
       ELSE /\ ret' = RetThrow("TypeError")
            /\ pc' = "failed"
            /\ UNCHANGED <<reloaded, file>>
    /\ op' = "addPortMapping"
    /\ log' = Append(log, Ev("addPortMapping", m.port, m.autoKill))
    /\ now' = now + 1
    /\ UNCHANGED loadedVars

\* getPortMapping on that instance: this.config.portMappings.find(...) || null
LoadedGetPortMapping(port) ==
    /\ pc = "done" /\ reloaded # NotReloaded /\ now < MaxStorageOps
    /\ IF HasMappings(reloaded)
       THEN /\ ret' = RetVoid(IF GetPortMapping(reloaded.portMappings, port)
                                  = NoMapping THEN "null" ELSE "mapping")
            /\ pc' = "done"
       ELSE /\ ret' = RetThrow("TypeError")
            /\ pc' = "failed"
    /\ op' = "getPortMapping"
    /\ log' = Append(log, Ev("getPortMapping", port, FALSE))
    /\ now' = now + 1
    /\ UNCHANGED <<loadedVars, reloaded, file>>

\* setAutoKill on that instance
LoadedSetAutoKill(enabled) ==
    /\ pc = "done" /\ reloaded # NotReloaded /\ now < MaxStorageOps
    /\ reloaded' = [reloaded EXCEPT !.autoKillEnabled = enabled]
    /\ \E writeFails \in BOOLEAN :
         file' = SaveConfig(file, reloaded', writeFails)
    /\ ret' = RetVoid("")
    /\ pc' = "done"
    /\ op' = "setAutoKill"
    /\ log' = Append(log, Ev("setAutoKill", NoNum, enabled))
    /\ now' = now + 1
    /\ UNCHANGED loadedVars

NextLoad ==
    \/ NewStorageService
    \/ \E m \in MappingArgs : LoadedAddPortMapping(m)
    \/ \E port \in StoragePorts : LoadedGetPortMapping(port)
    \/ \E enabled \in BOOLEAN : LoadedSetAutoKill(enabled)

SpecLoad == InitLoad /\ [][NextLoad]_vars

----------------------------------------------------------------------------
(* new ProcessService() *)

Construct ==
    /\ pc = "new"
    /\ IF CreatePlatformAdapter(platform) = "throw"
       THEN /\ adapter' = adapter
            /\ ret' = RetThrow("Unsupported platform")
            /\ pc' = "failed"
       ELSE /\ adapter' = CreatePlatformAdapter(platform)
            /\ ret' = ret
            /\ pc' = "idle"
    /\ UNCHANGED <<osVars, cfgVars, saveVars, netTable, procs, op, arg, kill,
                   found, log, lookupEnv, ports, autoKillEnabled, now, reloaded,
                   cwd, auto, cmdVars>>

\* a run of the kill workflow: any stored confirmation setting, in or out of
\* a project directory
Init ==
    /\ InitOS
    /\ InitCall
    /\ confirmKill \in BOOLEAN
    /\ mappings = <<>>
    /\ inProject \in BOOLEAN
    /\ autoKillEnabled = FALSE
    /\ InitStore

\* a call of ProcessService alone, which reads no configuration
InitService ==
    /\ InitOS
    /\ InitCall
    /\ confirmKill = TRUE
    /\ mappings = <<>>
    /\ inProject = FALSE
    /\ autoKillEnabled = FALSE
    /\ InitStore

----------------------------------------------------------------------------
(* ProcessService.findByPort(port), called directly *)

FindByPort(port) ==
    /\ pc = "idle"
    /\ op' = "findByPort"
    /\ arg' = [NoArg EXCEPT !.port = port]
    /\ kill' = KillIdle
    /\ found' = NoRec
    /\ IF ValidatePort(port) # "ok"
       THEN /\ ret' = RetThrow(ValidatePort(port))
            /\ log' = <<>>
            /\ netTable' = netTable
            /\ lookupEnv' = lookupEnv
       ELSE \E e \in Envs(platform), table \in Tables(MaxSockets) :
            /\ netTable' = table
            /\ lookupEnv' = e
            /\ ret' = RetFind(AdapterFindProcessByPort(platform, port, table,
                                                       procs, hasSS, e))
            /\ log' = <<Ev("adapter.findProcessByPort", port, FALSE),
                        Ev("native.lookup", port, FALSE)>>
    /\ pc' = "done"
    /\ UNCHANGED <<extVars, saveVars, osVars, cfgVars, procs>>

(* The adapter's findProcessByPort(port), called directly with a port its
   caller validated, any subset of the enrichment queries failing *)

FindProcessByPort(port) ==
    /\ pc = "idle"
    /\ op' = "findProcessByPort"
    /\ arg' = [NoArg EXCEPT !.port = port]
    /\ kill' = KillIdle
    /\ found' = NoRec
    /\ \E e \in EnrichEnvs(platform), table \in Tables(MaxContextSockets) :
         /\ netTable' = table
         /\ lookupEnv' = e
         /\ ret' = RetFind(AdapterFindProcessByPort(platform, port, table,
                                                    procs, hasSS, e))
    /\ log' = <<Ev("native.lookup", port, FALSE)>>
    /\ pc' = "done"
    /\ UNCHANGED <<extVars, saveVars, osVars, cfgVars, procs>>

(* ProcessService.getAllPorts(), called directly *)

GetAllPorts ==
    /\ pc = "idle"
    /\ op' = "getAllPorts"
    /\ arg' = NoArg
    /\ kill' = KillIdle
    /\ found' = NoRec
    /\ \E e \in Envs(platform), table \in ScanTables(MaxScanLines) :
         LET r == AdapterGetAllListeningPorts(platform, table, procs, hasSS, e)
         IN  /\ netTable' = table
             /\ lookupEnv' = e
             /\ ret' = RetList(r.kind)
             /\ ports' = r.list
    /\ log' = <<Ev("adapter.getAllListeningPorts", NoNum, FALSE),
                Ev("native.enumerate", NoNum, FALSE)>>
    /\ pc' = "done"
    /\ UNCHANGED <<adapter, autoKillEnabled, now, reloaded, cwd, auto, cmdVars, saveVars,
                   osVars, cfgVars, procs>>

(* ProcessService.killProcess(pid, force), called directly *)

KillProcess(pid, force) ==
    /\ pc = "idle"
    /\ op' = "killProcess"
    /\ arg' = [NoArg EXCEPT !.pid = pid, !.force = force]
    /\ found' = NoRec
    /\ IF PidRejected(pid)
       THEN /\ ret' = RetThrow("Invalid PID")
            /\ log' = <<>>
            /\ kill' = KillIdle
            /\ pc' = "done"
       ELSE /\ ret' = RetNone
            /\ log' = <<Ev("adapter.killProcess", pid, force)>>
            /\ kill' = KillStart(pid, force)
            /\ pc' = "killing"
    /\ UNCHANGED <<extVars, saveVars, osVars, cfgVars, netTable, procs, lookupEnv>>

KillProcessReturn ==
    /\ op = "killProcess"
    /\ pc = "killing"
    /\ kill.pc = "done"
    /\ ret' = RetBool(kill.ret)
    /\ log' = Append(log, Ev("killProcess.returned", kill.pid, kill.ret))
    /\ pc' = "done"
    /\ UNCHANGED <<extVars, saveVars, osVars, cfgVars, netTable, procs, op, arg, kill, found, lookupEnv>>

(* The adapter's killProcess(pid, force), one native command at a time *)

\* execSync(`kill ${signal} ${pid}`) / execSync(`taskkill /PID ${pid} ${flag}`)
AdapterKillRequest ==
    /\ kill.pc = "request"
    /\ \E refused \in BOOLEAN :
         /\ log' = Append(log, Ev("request." \o Signal(kill.force), kill.pid, kill.force))
         /\ IF RequestSucceeds(kill.pid, procs, refused)
            THEN kill' = [kill EXCEPT !.pc = "sleep",
                                      !.wasLive = IsLive(kill.pid, procs)]
            ELSE kill' = [kill EXCEPT !.pc = "done", !.ret = FALSE,
                                      !.wasLive = IsLive(kill.pid, procs)]
    /\ UNCHANGED <<extVars, saveVars, osVars, cfgVars, netTable, procs, op, pc, arg, found, ret, lookupEnv>>

\* await this.sleep(100): the signalled process may exit meanwhile
AdapterKillSleep ==
    /\ kill.pc = "sleep"
    /\ \E exits \in BOOLEAN :
         procs' = IF exits THEN procs \ {kill.pid.n} ELSE procs
    /\ log' = Append(log, Ev("sleep", kill.pid, kill.force))
    /\ kill' = [kill EXCEPT !.pc = "recheck"]
    /\ UNCHANGED <<extVars, saveVars, osVars, cfgVars, netTable, op, pc, arg, found, ret, lookupEnv>>

\* execSync(`ps -p ${pid}`) / execSync(`tasklist /FI "PID eq ${pid}" ...`)
AdapterKillRecheck ==
    /\ kill.pc = "recheck"
    /\ \E toolFails \in BOOLEAN :
         LET observed == Observed(kill.pid, procs, toolFails)
         IN  kill' = [kill EXCEPT !.pc = "done", !.observed = observed,
                                  !.ret = AdapterRecheck(platform, observed)]
    /\ log' = Append(log, Ev("recheck", kill.pid, kill.force))
    /\ UNCHANGED <<extVars, saveVars, osVars, cfgVars, netTable, procs, op, pc, arg, found, ret, lookupEnv>>

\* a process may exit on its own at any time while the program runs
ProcessExits(p) ==
    /\ pc \notin {"done", "failed"}
    /\ p \in procs
    /\ procs' = procs \ {p}
    /\ UNCHANGED <<extVars, saveVars, osVars, cfgVars, netTable, op, pc, arg, kill, found, ret, log, lookupEnv>>

----------------------------------------------------------------------------
(* KillCommand.execute(port, forceFlag) *)

\* processService.killProcess(pid, force) called from the workflow: the new
\* values of ret, kill, pc and log
CallKillProcess(pid, force, calledAt, soFar) ==
    IF PidRejected(pid)
    THEN /\ ret' = RetThrow("Invalid PID")
         /\ kill' = KillIdle
         /\ pc' = "done"
         /\ log' = soFar
    ELSE /\ ret' = RetNone
         /\ kill' = KillStart(pid, force)
         /\ pc' = calledAt
         /\ log' = Append(soFar, Ev("adapter.killProcess", pid, force))

\* mutant: a critical process ends the workflow after the warning
AfterWarningBlocks(critical) == IF critical THEN "done" ELSE "confirm"

\* if (isCriticalProcess(process)) { console.log(...) }: the branch only
\* prints, and control reaches the confirmation step whatever the answer
AfterWarning(critical) == "confirm"

\* findByPort, then the display of the record, the stored mapping and the
\* critical-process warning
Execute(port, forceFlag) ==
    /\ pc = "idle"
    /\ op' = "execute"
    /\ arg' = [NoArg EXCEPT !.port = port, !.forceFlag = forceFlag]
    /\ kill' = KillIdle
    /\ IF ValidatePort(port) # "ok"
       THEN /\ ret' = RetThrow(ValidatePort(port))
            /\ log' = <<>>
            /\ found' = NoRec
            /\ pc' = "done"
            /\ netTable' = netTable
       ELSE \E e \in Envs(platform), table \in Tables(MaxExecuteSockets) :
            LET r == AdapterFindProcessByPort(platform, port, table, procs,
                                              hasSS, e)
                looked == <<Ev("adapter.findProcessByPort", port, FALSE),
                            Ev("native.lookup", port, FALSE)>>
            IN  /\ netTable' = table
                /\ IF r.kind # "record"
                   THEN /\ ret' = RetVoid("not in use")
                        /\ log' = looked
                        /\ found' = NoRec
                        /\ pc' = "done"
                   ELSE /\ ret' = RetNone
                        /\ found' = r.rec
                        /\ log' = IF IsCriticalProcess(platform, r.rec.processName)
                                  THEN Append(looked, Ev("warn.critical",
                                                         JSInt(r.rec.pid), FALSE))
                                  ELSE looked
                        /\ pc' = AfterWarning(
                                    IsCriticalProcess(platform, r.rec.processName))
    /\ UNCHANGED <<extVars, saveVars, osVars, cfgVars, procs, lookupEnv>>

\* mutant: the prompt skipped
ShouldConfirmNever(forceFlag, confirmEnabled) == FALSE

\* const shouldConfirm = !forceFlag && this.storageService.isConfirmKillEnabled()
ShouldConfirm(forceFlag, confirmEnabled) == ~forceFlag /\ confirmEnabled

\* the confirmation prompt, then performKill's graceful attempt
ExecuteConfirm ==
    /\ op = "execute"
    /\ pc = "confirm"
    /\ IF ShouldConfirm(arg.forceFlag, confirmKill)
       THEN \E confirmed \in BOOLEAN :
            LET asked == Append(log, Ev("prompt", JSInt(found.pid), confirmed))
            IN  IF ~confirmed
                THEN /\ ret' = RetVoid("cancelled")
                     /\ pc' = "done"
                     /\ log' = asked
                     /\ kill' = kill
                ELSE CallKillProcess(JSInt(found.pid), FALSE, "graceful", asked)
       ELSE CallKillProcess(JSInt(found.pid), FALSE, "graceful", log)
    /\ UNCHANGED <<extVars, saveVars, osVars, cfgVars, netTable, procs, op, arg, found, lookupEnv>>

\* the end of performKill and the port-mapping update of execute
ExecuteFinish(success, soFar) ==
    /\ log' = Append(soFar, Ev(IF success THEN "terminated" ELSE "advise.elevated",
                               JSInt(found.pid), success))
    /\ IF inProject
       THEN \E writeFails \in BOOLEAN :
            LET ms == AddPortMapping(mappings,
                        [port |-> arg.port, projectName |-> CurrentProject.name,
                         projectPath |-> CurrentProject.path, autoKill |-> FALSE],
                        Date(now))
            IN  /\ mappings' = ms
                /\ file' = SaveConfig(file, [Config EXCEPT !.portMappings = ms],
                                      writeFails)
                /\ added' = [added EXCEPT ![arg.port] = ms[Len(ms)]]
                /\ lastWrite' = IF writeFails THEN "failed" ELSE "ok"
       ELSE UNCHANGED <<mappings, saveVars>>
    /\ ret' = RetVoid(IF success THEN "terminated" ELSE "failed")
    /\ pc' = "done"
    /\ UNCHANGED kill

\* mutant: the forceful attempt made whatever the graceful one returned
NeedsForceAlways(success) == TRUE

\* if (!success) { ...; success = await killProcess(process.pid, true) }
NeedsForce(success) == ~success

\* performKill after the graceful attempt returned
PerformKillGracefulDone ==
    /\ op = "execute"
    /\ pc = "graceful"
    /\ kill.pc = "done"
    /\ LET returned == Append(log, Ev("killProcess.returned", kill.pid, kill.ret))
       IN  IF NeedsForce(kill.ret)
           THEN /\ CallKillProcess(JSInt(found.pid), TRUE, "forceful",
                                   Append(returned, Ev("sleep500", kill.pid, FALSE)))
                /\ UNCHANGED <<mappings, saveVars>>
           ELSE ExecuteFinish(kill.ret, returned)
    /\ UNCHANGED <<extVars, osVars, confirmKill, inProject, netTable, procs, op, arg, found, lookupEnv>>

\* performKill after the forceful attempt returned
PerformKillForcefulDone ==
    /\ op = "execute"
    /\ pc = "forceful"
    /\ kill.pc = "done"
    /\ ExecuteFinish(kill.ret,
                     Append(log, Ev("killProcess.returned", kill.pid, kill.ret)))
    /\ UNCHANGED <<extVars, osVars, confirmKill, inProject, netTable, procs, op, arg, found, lookupEnv>>

----------------------------------------------------------------------------

\* a run of `zkill <port>`
Next ==
    \/ \E port \in PortArgs, forceFlag \in BOOLEAN : Execute(port, forceFlag)
    \/ ExecuteConfirm
    \/ PerformKillGracefulDone
    \/ PerformKillForcefulDone
    \/ AdapterKillRequest
    \/ AdapterKillSleep
    \/ AdapterKillRecheck
    \/ \E p \in Pids : ProcessExits(p)

Spec == Init /\ [][Next]_vars

\* one call of ProcessService
NextService ==
    \/ \E port \in PortArgs : FindByPort(port)
    \/ \E pid \in PidArgs, force \in BOOLEAN : KillProcess(pid, force)
    \/ KillProcessReturn
    \/ AdapterKillRequest
    \/ AdapterKillSleep
    \/ AdapterKillRecheck
    \/ \E p \in Pids : ProcessExits(p)

SpecService == InitService /\ [][NextService]_vars

\* one call of ProcessService that returns records: a scan or a lookup
NextScan ==
    \/ GetAllPorts
    \/ \E port \in PortArgs : FindByPort(port)
    \/ \E p \in Pids : ProcessExits(p)

SpecScan == InitService /\ [][NextScan]_vars

\* one lookup of an adapter, the enrichment queries included
NextContext ==
    \/ \E port \in {p \in PortArgs : ValidatePort(p) = "ok"} : FindProcessByPort(port)
    \/ \E p \in Pids : ProcessExits(p)

SpecContext == InitService /\ [][NextContext]_vars

\* the construction of ProcessService on any platform, then one call
NextPlatform ==
    \/ Construct
    \/ GetAllPorts
    \/ \E port \in PortArgs : FindByPort(port)
    \/ \E pid \in PidArgs, force \in BOOLEAN : KillProcess(pid, force)
    \/ KillProcessReturn
    \/ AdapterKillRequest
    \/ AdapterKillSleep
    \/ AdapterKillRecheck
    \/ \E p \in Pids : ProcessExits(p)

SpecPlatform == InitPlatform /\ [][NextPlatform]_vars

\* calls on one StorageService, then a StorageService constructed afterwards
NextStorage ==
    \/ \E m \in MappingArgs : StorageAddPortMapping(m)
    \/ \E port \in StoragePorts : StorageRemovePortMapping(port)
    \/ \E enabled \in BOOLEAN : StorageSetAutoKill(enabled)
    \/ \E enabled \in BOOLEAN : StorageSetConfirmKill(enabled)
    \/ StorageClearConfig
    \/ StorageGetAllMappings
    \/ NewStorageService

SpecStorage == InitStorage /\ [][NextStorage]_vars

----------------------------------------------------------------------------
(* ScanCommand *)

RangeError(m) == [kind |-> "throw", msg |-> m, min |-> 0, max |-> 0]

\* parsePortRange(range), range being given by its parts
ParsePortRange(range) ==
    IF Len(range) # 2
    THEN RangeError("Invalid port range format")
    ELSE LET min == ParseInt(range[1])
             max == ParseInt(range[2])
         IN  IF IsNaN(min) \/ IsNaN(max)
             THEN RangeError("Port range must contain valid numbers")
             ELSE IF min.n < 1 \/ max.n > 65535 \/ min.n > max.n
             THEN RangeError("Invalid port range")
             ELSE [kind |-> "range", msg |-> "", min |-> min.n, max |-> max.n]

\* p.port >= min && p.port <= max
InRange(port, min, max) ==
    \/ port.k = "int" /\ port.n >= min /\ port.n <= max
    \/ port.k = "frac" /\ port.n >= min /\ port.n < max

\* a string option is used when it is neither undefined nor ""
Given(s) == s # Absent /\ s # ""

\* mutant: the process-name filter left out
ApplyFiltersNoProcess(plat, processes, opts) ==
    LET byRange == IF opts.range # <<>>
                   THEN LET r == ParsePortRange(opts.range)
                        IN  SelectSeq(processes,
                                      LAMBDA p : InRange(p.port, r.min, r.max))
                   ELSE processes
    IN  IF opts.system = FALSE
        THEN SelectSeq(byRange,
                       LAMBDA p : ~IsCriticalProcess(plat, p.processName))
        ELSE byRange

\* applyFilters(processes, options), for a range parsePortRange accepts
ApplyFilters(plat, processes, opts) ==
    LET byRange == IF opts.range # <<>>
                   THEN LET r == ParsePortRange(opts.range)
                        IN  SelectSeq(processes,
                                      LAMBDA p : InRange(p.port, r.min, r.max))
                   ELSE processes
        byName == IF Given(opts.process)
                  THEN SelectSeq(byRange,
                                 LAMBDA p : Includes(ToLowerCase(p.processName),
                                                     ToLowerCase(opts.process)))
                  ELSE byRange
    IN  IF opts.system = FALSE
        THEN SelectSeq(byName,
                       LAMBDA p : ~IsCriticalProcess(plat, p.processName))
        ELSE byName

\* the options of the calls: ranges of one, two and three parts
RangeArgs ==
    {<<>>, <<80>>, <<1, 80, 81>>,
     <<80, 80>>, <<81, 8080>>, <<1, 65535>>,
     <<81, 80>>, <<0, 80>>, <<1, 65536>>, <<NoDigits, 80>>, <<80, NoDigits>>}
ProcessArgs == {Absent, "NODE", "Sys"}
ScanOptionsArgs == [range : RangeArgs, process : ProcessArgs, system : BOOLEAN]

\* the listening sockets the enumeration of a scan can print
ListenUniverse ==
    [pid : {0, 1, MaxPid}, lport : {80, 8080}, rport : {0}, state : {"LISTEN"}]
RECURSIVE ListenTables(_)
ListenTables(n) ==
    IF n = 0 THEN {<<>>}
    ELSE LET shorter == ListenTables(n - 1)
         IN  shorter \cup {Append(t, s) : t \in shorter, s \in ListenUniverse}

\* ScanCommand.execute(options): getAllPorts, then applyFilters (where
\* parsePortRange throws), then the display of the records sorted by port
ScanExecute(opts) ==
    /\ pc = "idle"
    /\ op' = "scan"
    /\ options' = opts
    /\ \E lookupFails \in BOOLEAN, table \in ListenTables(MaxScanLines) :
         LET e == [NoEnv EXCEPT !.lookupFails = lookupFails, !.details = "ok"]
             r == AdapterGetAllListeningPorts(platform, table, procs, hasSS, e)
             range == IF opts.range # <<>> THEN ParsePortRange(opts.range)
                      ELSE [kind |-> "none", msg |-> "", min |-> 0, max |-> 0]
         IN  /\ netTable' = table
             /\ lookupEnv' = e
             /\ IF r.kind = "throw"
                THEN /\ ports' = <<>>
                     /\ ret' = RetThrow("getAllPorts")
                     /\ shown' = <<>>
                ELSE /\ ports' = r.list
                     /\ IF range.kind = "throw"
                        THEN /\ ret' = RetThrow(range.msg)
                             /\ shown' = <<>>
                        ELSE /\ ret' = RetVoid("")
                             /\ shown' = SortByPort(
                                            ApplyFilters(platform, r.list, opts))
    /\ log' = <<Ev("adapter.getAllListeningPorts", NoNum, FALSE),
                Ev("native.enumerate", NoNum, FALSE)>>
    /\ pc' = "done"
    /\ UNCHANGED <<osVars, cfgVars, saveVars, procs, arg, kill, found, adapter,
                   autoKillEnabled, now, reloaded, cwd, auto, etime, elapsed,
                   inst>>

InitScanCommand ==
    /\ platform \in SupportedPlatforms
    /\ adapter = CreatePlatformAdapter(platform)
    /\ netTable = <<>>
    /\ procs = {0, 1, MaxPid}
    /\ hasSS \in (IF platform = "linux" THEN BOOLEAN ELSE {FALSE})
    /\ InitCall
    /\ confirmKill = TRUE
    /\ mappings = <<>>
    /\ inProject = FALSE
    /\ autoKillEnabled = FALSE
    /\ InitStore

NextScanCommand == \E opts \in ScanOptionsArgs : ScanExecute(opts)

SpecScanCommand == InitScanCommand /\ [][NextScanCommand]_vars

----------------------------------------------------------------------------
(* parseElapsedTime, called alone *)

\* the strings `ps -o etime=` prints: [[DD-]HH:]MM:SS
Hours == {0, 10, 23}
Minutes == {0, 30, 59}
Seconds == {0, 45, 59}
WellFormedEtimes ==
    {<<<<d>>, <<h, m, s>>>> : d \in 0..MaxDays, h \in Hours, m \in Minutes,
                             s \in Seconds}
    \cup {<<<<h, m, s>>>> : h \in Hours, m \in Minutes, s \in Seconds}
    \cup {<<<<m, s>>>> : m \in Minutes, s \in Seconds}
\* and strings of other shapes: "45", "1-30:45", "ab:45", "-10:30:45", ""
OtherEtimes ==
    {<<<<45>>>>, <<<<1>>, <<30, 45>>>>, <<<<NoDigits, 45>>>>,
     <<<<NoDigits>>, <<10, 30, 45>>>>, <<<<NoDigits>>>>}

CallParseElapsedTime(e) ==
    /\ pc = "idle"
    /\ platform \in {"darwin", "linux"}
    /\ op' = "parseElapsedTime"
    /\ etime' = e
    /\ elapsed' = ParseElapsedTime(e)
    /\ pc' = "done"
    /\ UNCHANGED <<osVars, cfgVars, saveVars, netTable, procs, arg, kill, found,
                   ret, log, lookupEnv, ports, adapter, autoKillEnabled, now,
                   reloaded, cwd, auto, options, shown, inst>>

InitElapsed ==
    /\ platform \in {"darwin", "linux"}
    /\ adapter = CreatePlatformAdapter(platform)
    /\ netTable = <<>>
    /\ procs = {}
    /\ hasSS = FALSE
    /\ InitCall
    /\ confirmKill = TRUE
    /\ mappings = <<>>
    /\ inProject = FALSE
    /\ autoKillEnabled = FALSE
    /\ InitStore

NextElapsed ==
    \E e \in WellFormedEtimes \cup OtherEtimes : CallParseElapsedTime(e)

SpecElapsed == InitElapsed /\ [][NextElapsed]_vars

----------------------------------------------------------------------------
(* Two zkill processes sharing the config file *)

\* the port each process adds a mapping for
InstancePort(i) == IF i = 1 THEN JSInt(80) ELSE JSInt(8080)

\* what a step of one of the two processes leaves alone
instFrame == <<osVars, cfgVars, adapter, netTable, procs, op, pc, arg, kill, found,
               ret, log, lookupEnv, ports, autoKillEnabled, now, added, reloaded,
               lastWrite, cwd, auto, options, shown, etime, elapsed>>

\* new StorageService() in process i: loadConfig reads the file as it is now
\* (and writes the default configuration when there is none)
InstanceConstruct(i) ==
    /\ inst[i].pc = "new"
    /\ inst' = [inst EXCEPT ![i].pc = "loaded", ![i].config = LoadConfig(file)]
    /\ \E writeFails \in BOOLEAN :
         file' = IF file.kind = "json" THEN file
                 ELSE SaveConfig(file, DefaultConfig, writeFails)
    /\ UNCHANGED instFrame

\* addPortMapping in process i: the mapping replaces the port's in the
\* configuration the process loaded, and saveConfig writes that whole
\* configuration
InstanceAddPortMapping(i, m) ==
    /\ inst[i].pc = "loaded"
    /\ m.port = InstancePort(i)
    /\ \E writeFails \in BOOLEAN :
         LET config == [inst[i].config EXCEPT !.portMappings =
                                               AddPortMapping(@, m, Date(now))]
         IN  /\ inst' = [inst EXCEPT ![i].pc = "done", ![i].config = config,
                                     ![i].written = ~writeFails]
             /\ file' = SaveConfig(file, config, writeFails)
    /\ UNCHANGED instFrame

\* a StorageService constructed after both processes have finished
InstancesFinished == \A i \in {1, 2} : inst[i].pc = "done"

InitInstances ==
    /\ platform \in SupportedPlatforms
    /\ adapter = CreatePlatformAdapter(platform)
    /\ netTable = <<>>
    /\ procs = {}
    /\ hasSS = FALSE
    /\ InitCall
    /\ confirmKill = DefaultConfig.confirmKill
    /\ mappings = DefaultConfig.portMappings
    /\ autoKillEnabled = DefaultConfig.autoKillEnabled
    /\ inProject = FALSE
    /\ file \in {NoFile, Written(DefaultConfig)}
    /\ cwd = "/work/projA"
    /\ now = 1
    /\ added = [p \in ValidPorts |-> NoMapping]
    /\ reloaded = NotReloaded
    /\ lastWrite = "none"

NextInstances ==
    \/ \E i \in {1, 2} : InstanceConstruct(i)
    \/ \E i \in {1, 2}, m \in MappingArgs : InstanceAddPortMapping(i, m)
    \/ InstancesFinished /\ NewStorageService

SpecInstances == InitInstances /\ [][NextInstances]_vars

----------------------------------------------------------------------------
(* One LinuxAdapter, called several times *)

\* hasSSCommand() ? ...WithSS : ...WithNetstat
LinuxTool(ss) == IF HasSSCommand(ss) THEN "tool.ss" ELSE "tool.netstat"

\* the calls of hasSSCommand made so far, each one an execSync('which ss')
Probes == {i \in DOMAIN log : log[i].ev = "which ss"}

\* what a call on the adapter leaves alone
linuxFrame == <<osVars, cfgVars, saveVars, procs, kill, found, adapter,
                autoKillEnabled, now, reloaded, cwd, auto, cmdVars>>

\* LinuxAdapter.findProcessByPort(port): hasSSCommand, then the tool
LinuxFindCall(port) ==
    /\ pc = "idle" /\ platform = "linux"
    /\ Cardinality(Probes) < MaxCalls
    /\ op' = "findProcessByPort"
    /\ arg' = [NoArg EXCEPT !.port = port]
    /\ \E lookupFails \in BOOLEAN, table \in Tables(MaxContextSockets) :
         LET e == [NoEnv EXCEPT !.lookupFails = lookupFails, !.details = "ok"]
         IN  /\ netTable' = table
             /\ lookupEnv' = e
             /\ ret' = RetFind(LinuxFindProcessByPort(port, table, procs,
                                                      hasSS, e))
    /\ log' = log \o <<Ev("which ss", NoNum, hasSS),
                        Ev(LinuxTool(hasSS), port, FALSE)>>
    /\ pc' = "idle"
    /\ UNCHANGED <<linuxFrame, ports>>

\* LinuxAdapter.getAllListeningPorts(): hasSSCommand, then the tool
LinuxScanCall ==
    /\ pc = "idle" /\ platform = "linux"
    /\ Cardinality(Probes) < MaxCalls
    /\ op' = "getAllListeningPorts"
    /\ arg' = NoArg
    /\ \E lookupFails \in BOOLEAN, table \in ListenTables(MaxContextSockets) :
         LET e == [NoEnv EXCEPT !.lookupFails = lookupFails, !.details = "ok"]
             r == LinuxGetAllListeningPorts(table, procs, hasSS, e)
         IN  /\ netTable' = table
             /\ lookupEnv' = e
             /\ ret' = RetList(r.kind)
             /\ ports' = r.list
    /\ log' = log \o <<Ev("which ss", NoNum, hasSS),
                        Ev(LinuxTool(hasSS), NoNum, FALSE)>>
    /\ pc' = "idle"
    /\ UNCHANGED linuxFrame

\* between two calls the ss package is installed or removed
SSChanges ==
    /\ pc = "idle" /\ platform = "linux"
    /\ Cardinality(Probes) \in 1..(MaxCalls - 1)
    /\ hasSS' = ~hasSS
    /\ UNCHANGED <<platform, cfgVars, saveVars, netTable, procs, op, pc, arg, kill,
                   found, ret, log, lookupEnv, ports, adapter, autoKillEnabled,
                   now, reloaded, cwd, auto, cmdVars>>

InitLinux ==
    /\ platform = "linux"
    /\ adapter = CreatePlatformAdapter(platform)
    /\ netTable = <<>>
    /\ procs \in SUBSET Pids
    /\ hasSS \in BOOLEAN
    /\ InitCall
    /\ confirmKill = TRUE
    /\ mappings = <<>>
    /\ inProject = FALSE
    /\ autoKillEnabled = FALSE
    /\ InitStore

NextLinux ==
    \/ \E port \in {JSInt(80)} : LinuxFindCall(port)
    \/ LinuxScanCall
    \/ SSChanges

SpecLinux == InitLinux /\ [][NextLinux]_vars

----------------------------------------------------------------------------
(* AutoCommand *)

\* what the steps of AutoCommand leave alone
autoFrame == <<osVars, adapter, procs, confirmKill, inProject, found, lookupEnv,
               ports, now, reloaded, cwd, added, cmdVars>>

\* `zkill auto enable` / `zkill auto disable`: setAutoKill and its save
AutoSetAutoKill(enabled) ==
    /\ pc = "idle"
    /\ op' = IF enabled THEN "auto.enable" ELSE "auto.disable"
    /\ autoKillEnabled' = enabled
    /\ \E writeFails \in BOOLEAN :
         /\ file' = SaveConfig(file, [Config EXCEPT !.autoKillEnabled = enabled],
                               writeFails)
         /\ lastWrite' = IF writeFails THEN "failed" ELSE "ok"
    /\ log' = <<Ev("setAutoKill", NoNum, enabled)>>
    /\ ret' = RetVoid(IF enabled THEN "enabled" ELSE "disabled")
    /\ pc' = "done"
    /\ UNCHANGED <<autoFrame, netTable, mappings, arg, kill, auto>>

\* mutant: the test on the project path dropped
IsOtherProjectPortAnyPath(m, currentPath) == m.autoKill

\* (m) => m.projectPath !== currentPath && m.autoKill
IsOtherProjectPort(m, currentPath) == m.projectPath # currentPath /\ m.autoKill

\* mappings.filter(...)
OtherProjectPorts(ms, currentPath) ==
    SelectSeq(ms, LAMBDA m : IsOtherProjectPort(m, currentPath))

\* checkAndKill up to its first await: the guard on the global switch,
\* getAllMappings (which sorts the stored list in place) and the filter.
\* netTable is the connection table of the machine while the check runs.
CheckAndKill ==
    /\ pc = "idle"
    /\ op' = "checkAndKill"
    /\ \E table \in Tables(MaxAutoSockets) : netTable' = table
    /\ log' = <<>>
    /\ IF ~autoKillEnabled
       THEN /\ mappings' = mappings
            /\ auto' = AutoIdle
            /\ ret' = RetVoid("disabled")
            /\ pc' = "done"
       ELSE LET sorted == SortByPort(mappings)
                others == OtherProjectPorts(sorted, CurrentProject.path)
            IN  /\ mappings' = sorted
                /\ auto' = [AutoIdle EXCEPT !.todo = others]
                /\ IF others = <<>>
                   THEN ret' = RetVoid("no ports") /\ pc' = "done"
                   ELSE ret' = RetNone /\ pc' = "lookup"
    /\ UNCHANGED <<autoFrame, autoKillEnabled, file, lastWrite, arg, kill>>

\* one turn of `for (const mapping of otherProjectPorts)`: findByPort, and
\* the push on portsInUse when it returned a record; after the last turn
\* the test on portsInUse.length
CheckAndKillLookup ==
    /\ op = "checkAndKill"
    /\ pc = "lookup"
    /\ LET mapping == Head(auto.todo)
           rest == Tail(auto.todo)
       IN  IF ValidatePort(mapping.port) # "ok"
           THEN /\ ret' = RetThrow(ValidatePort(mapping.port))
                /\ pc' = "done"
                /\ UNCHANGED <<log, auto>>
           ELSE \E e \in Envs(platform) :
                LET r == AdapterFindProcessByPort(platform, mapping.port, netTable,
                                                  procs, hasSS, e)
                    inUse == IF r.kind = "record"
                             THEN Append(auto.inUse,
                                         [mapping |-> mapping, process |-> r.rec])
                             ELSE auto.inUse
                IN  /\ log' = Append(log, Ev("adapter.findProcessByPort",
                                             mapping.port, FALSE))
                    /\ auto' = [auto EXCEPT !.todo = rest, !.inUse = inUse]
                    /\ IF rest # <<>>
                       THEN ret' = ret /\ pc' = "lookup"
                       ELSE IF inUse = <<>>
                            THEN ret' = RetVoid("not in use") /\ pc' = "done"
                            ELSE ret' = ret /\ pc' = "autoPrompt"
    /\ UNCHANGED <<autoFrame, autoKillEnabled, file, lastWrite, netTable,
                   mappings, arg, kill, op>>

\* the 'Auto-kill these processes?' prompt, then the first kill of the loop
CheckAndKillPrompt ==
    /\ op = "checkAndKill"
    /\ pc = "autoPrompt"
    /\ \E confirmed \in BOOLEAN :
         LET asked == Append(log, Ev("prompt", JSInt(auto.inUse[1].process.pid),
                                     confirmed))
         IN  IF ~confirmed
             THEN /\ ret' = RetVoid("skipped")
                  /\ pc' = "done"
                  /\ log' = asked
                  /\ UNCHANGED <<kill, auto>>
             ELSE /\ CallKillProcess(JSInt(auto.inUse[1].process.pid), FALSE,
                                     "autoKill", asked)
                  /\ auto' = [auto EXCEPT !.idx = 1]
    /\ UNCHANGED <<autoFrame, autoKillEnabled, file, lastWrite, netTable,
                   mappings, arg, op>>

\* killProcess(process.pid, false) returned: killedCount, then the next
\* entry of portsInUse or the report
CheckAndKillKilled ==
    /\ op = "checkAndKill"
    /\ pc = "autoKill"
    /\ kill.pc = "done"
    /\ LET returned == Append(log, Ev("killProcess.returned", kill.pid, kill.ret))
           killed == IF kill.ret THEN auto.killed + 1 ELSE auto.killed
       IN  IF auto.idx < Len(auto.inUse)
           THEN /\ CallKillProcess(JSInt(auto.inUse[auto.idx + 1].process.pid),
                                   FALSE, "autoKill", returned)
                /\ auto' = [auto EXCEPT !.idx = auto.idx + 1, !.killed = killed]
           ELSE /\ ret' = RetVoid("killed")
                /\ pc' = "done"
                /\ log' = Append(returned, Ev("report.killed", JSInt(killed), TRUE))
                /\ kill' = kill
                /\ auto' = [auto EXCEPT !.killed = killed]
    /\ UNCHANGED <<autoFrame, autoKillEnabled, file, lastWrite, netTable,
                   mappings, arg, op>>

\* the mappings a configuration file can hold: any of the records
\* addPortMapping stores, one per port, not yet sorted
StoredMappings ==
    LET stored == {[port |-> m.port, projectName |-> m.projectName,
                    projectPath |-> m.projectPath, autoKill |-> m.autoKill,
                    lastUsed |-> Date(0)] : m \in MappingArgs}
    IN  {<<>>} \cup {<<m>> : m \in stored}
          \cup {pair \in {<<m1, m2>> : m1 \in stored, m2 \in stored} :
                  PortAfter(pair[1].port, pair[2].port)}

\* a run of `zkill auto check` in directory B, over any stored configuration
\* (mappings of B, of A, of both)
InitAuto ==
    /\ InitOS
    /\ InitCall
    /\ confirmKill = TRUE
    /\ inProject = TRUE
    /\ autoKillEnabled \in BOOLEAN
    /\ mappings \in StoredMappings
    /\ cwd = "/work/projB"
    /\ file = Written(Config)
    /\ now = 1
    /\ added = [p \in ValidPorts |-> GetPortMapping(mappings, p)]
    /\ reloaded = NotReloaded
    /\ lastWrite = "none"

NextAuto ==
    \/ CheckAndKill
    \/ CheckAndKillLookup
    \/ CheckAndKillPrompt
    \/ CheckAndKillKilled
    \/ AdapterKillRequest
    \/ AdapterKillSleep
    \/ AdapterKillRecheck
    \/ \E p \in Pids : ProcessExits(p)

SpecAuto == InitAuto /\ [][NextAuto]_vars

----------------------------------------------------------------------------
(* Several runs of the program, one after the other *)

\* AutoCommand.togglePort(port), which no command of the program calls
TogglePort(port) ==
    /\ pc = "idle"
    /\ op' = "togglePort"
    /\ arg' = [NoArg EXCEPT !.port = port]
    /\ LET mapping == GetPortMapping(mappings, port)
       IN  IF mapping = NoMapping
           THEN /\ ret' = RetVoid("no mapping")
                /\ UNCHANGED <<mappings, saveVars>>
           ELSE \E writeFails \in BOOLEAN :
                LET ms == AddPortMapping(mappings,
                            [mapping EXCEPT !.autoKill = ~mapping.autoKill],
                            Date(now))
                IN  /\ mappings' = ms
                    /\ file' = SaveConfig(file, [Config EXCEPT !.portMappings = ms],
                                          writeFails)
                    /\ added' = [added EXCEPT ![port] = ms[Len(ms)]]
                    /\ lastWrite' = IF writeFails THEN "failed" ELSE "ok"
                    /\ ret' = RetVoid("toggled")
    /\ log' = <<Ev("togglePort", port, FALSE)>>
    /\ pc' = "done"
    /\ UNCHANGED <<osVars, adapter, procs, confirmKill, inProject, found,
                   lookupEnv, ports, now, reloaded, cwd, cmdVars, netTable,
                   autoKillEnabled, kill, auto>>

\* the run is over and the next one starts, later, in directory dir, with
\* the processes of live running: its StorageService loads the file the
\* earlier runs wrote
NextRun(dir, live) ==
    /\ pc = "done"
    /\ now + 1 < MaxRuns
    /\ now' = now + 1
    /\ cwd' = dir
    /\ procs' = live
    /\ LET loaded == LoadConfig(file)
       IN  /\ mappings' = loaded.portMappings
           /\ autoKillEnabled' = loaded.autoKillEnabled
           /\ confirmKill' = loaded.confirmKill
           /\ added' = [p \in ValidPorts |-> GetPortMapping(loaded.portMappings, p)]
    /\ lastWrite' = "none"
    /\ netTable' = <<>>
    /\ op' = "none"
    /\ pc' = "idle"
    /\ arg' = NoArg
    /\ kill' = KillIdle
    /\ found' = NoRec
    /\ ret' = RetNone
    /\ log' = <<>>
    /\ lookupEnv' = NoEnv
    /\ auto' = AutoIdle
    /\ UNCHANGED <<platform, hasSS, adapter, inProject, file, ports, reloaded,
                   cmdVars>>

\* the ports of the commands of these runs: `zkill 80`, and port 8080 for
\* togglePort
SwitchPorts == {JSInt(80)}
TogglePorts == {JSInt(8080)}

\* a run in directory A of an installation that stored no mapping for a
\* port of SwitchPorts yet, and may hold one for port 8080 of project B;
\* inProject tells whether the directories hold a project file
InitSwitch ==
    /\ InitOS
    /\ InitCall
    /\ confirmKill = TRUE
    /\ mappings \in {<<>>,
                     <<[port |-> JSInt(8080), projectName |-> "projB",
                        projectPath |-> "/work/projB", autoKill |-> FALSE,
                        lastUsed |-> Date(0)]>>}
    /\ inProject \in BOOLEAN
    /\ autoKillEnabled \in BOOLEAN
    /\ InitStore

NextSwitch ==
    \/ \E enabled \in BOOLEAN : AutoSetAutoKill(enabled)
    \/ \E port \in SwitchPorts, forceFlag \in BOOLEAN : Execute(port, forceFlag)
    \/ ExecuteConfirm
    \/ PerformKillGracefulDone
    \/ PerformKillForcefulDone
    \/ \E port \in TogglePorts : TogglePort(port)
    \/ CheckAndKill
    \/ CheckAndKillLookup
    \/ CheckAndKillPrompt
    \/ CheckAndKillKilled
    \/ AdapterKillRequest
    \/ AdapterKillSleep
    \/ AdapterKillRecheck
    \/ \E dir \in ProjectDirs, live \in SUBSET Pids : NextRun(dir, live)

SpecSwitch == InitSwitch /\ [][NextSwitch]_vars

----------------------------------------------------------------------------
(* Reading the log *)

HasEvent(e) == \E i \in DOMAIN log : log[i].ev = e

Requests == SelectSeq(log, LAMBDA e : e.ev \in {"request.graceful", "request.forceful"})

\* the native commands of the adapter's current (or last) killProcess call
NativeOfCall ==
    LET calls == {i \in DOMAIN log : log[i].ev = "adapter.killProcess"}
        last == CHOOSE i \in calls : \A j \in calls : j <= i
        natives == SelectSeq(SubSeq(log, last + 1, Len(log)),
                     LAMBDA e : e.ev \in {"request.graceful", "request.forceful",
                                          "sleep", "recheck"})
    IN  IF calls = {} THEN <<>>
        ELSE [i \in DOMAIN natives |->
                IF natives[i].ev \in {"request.graceful", "request.forceful"}
                THEN "request" ELSE natives[i].ev]

IsPrefix(a, b) == Len(a) <= Len(b) /\ a = SubSeq(b, 1, Len(a))

\* the calls of processService.killProcess and what they returned
KillCalls ==
    LET es == SelectSeq(log, LAMBDA e : e.ev \in {"adapter.killProcess",
                                                  "killProcess.returned"})
    IN  [i \in DOMAIN es |-> <<es[i].ev, es[i].b>>]

GracefulOnly == <<<<"adapter.killProcess", FALSE>>, <<"killProcess.returned", TRUE>>>>
Escalated(result) ==
    <<<<"adapter.killProcess", FALSE>>, <<"killProcess.returned", FALSE>>,
      <<"adapter.killProcess", TRUE>>, <<"killProcess.returned", result>>>>

----------------------------------------------------------------------------
(* Claims *)

\* C1: findByPort(p) rejects every p that is not a finite integer in
\* [1, 65535], before the adapter's findProcessByPort or any native tool runs.
C1_InvalidPortRejected ==
    (op = "findByPort" /\ pc = "done" /\ ~IsValidPort(arg.port))
      => /\ ret.kind = "throw"
         /\ ~HasEvent("adapter.findProcessByPort")
         /\ ~HasEvent("native.lookup")

\* C2: killProcess(p, *) rejects every p that is not a positive integer, with
\* either forceful flag, before the adapter's killProcess runs: no termination
\* command is issued for such a pid.
C2_InvalidPidRejected ==
    (op = "killProcess" /\ ~IsPositiveInteger(arg.pid))
      => /\ ~HasEvent("adapter.killProcess")
         /\ Requests = <<>>
         /\ (pc = "done" => ret.kind = "throw")

\* C3: an adapter's killProcess(pid, false) whose recheck finds the process
\* still present returns false, and the one termination request of that call
\* is the graceful one.
C3_GracefulNeverEscalates ==
    (kill.pc = "done" /\ ~kill.force /\ kill.observed = "alive")
      => /\ kill.ret = FALSE
         /\ NativeOfCall = <<"request", "sleep", "recheck">>
         /\ ~HasEvent("request.forceful")
         /\ Len(Requests) = 1

C3_Witness ==
    /\ kill.pc = "done" /\ ~kill.force /\ kill.observed = "alive"
    /\ kill.ret = FALSE /\ HasEvent("request.graceful")

\* C4, as stated: request, settle delay, recheck in that order; true only if
\* the recheck confirms the process absent; false if it is still alive or the
\* request failed.
C4_TrueOnlyIfConfirmedAbsent ==
    /\ IsPrefix(NativeOfCall, <<"request", "sleep", "recheck">>)
    /\ kill.pc = "done" =>
         /\ kill.ret => (NativeOfCall = <<"request", "sleep", "recheck">>
                           /\ kill.observed = "absent")
         /\ kill.observed = "alive" => ~kill.ret
         /\ NativeOfCall = <<"request">> => ~kill.ret

\* C4, amended: request, settle delay, recheck in that order; true only if
\* the recheck reports the process absent or the recheck command itself
\* fails; false if the recheck reports it alive or the request failed.
C4_TrueOnlyIfNotSeenAlive ==
    /\ IsPrefix(NativeOfCall, <<"request", "sleep", "recheck">>)
    /\ kill.pc = "done" =>
         /\ NativeOfCall \in {<<"request">>, <<"request", "sleep", "recheck">>}
         /\ kill.ret => (NativeOfCall = <<"request", "sleep", "recheck">>
                           /\ kill.observed \in {"absent", "error"})
         /\ kill.observed = "alive" => ~kill.ret
         /\ NativeOfCall = <<"request">> => ~kill.ret

C4_Witness ==
    /\ kill.pc = "done" /\ kill.ret /\ kill.observed = "absent"
    /\ NativeOfCall = <<"request", "sleep", "recheck">>

\* C5: the kill workflow calls killProcess gracefully first; forcefully only
\* after the graceful call for the same pid returned false, and once; after a
\* second false it stops and advises elevated privileges; after a graceful
\* true it makes no forceful call.
C5_EscalateOnceThenAdvise ==
    op = "execute" =>
      LET calls == KillCalls
      IN  /\ \/ IsPrefix(calls, GracefulOnly)
             \/ IsPrefix(calls, Escalated(TRUE))
             \/ IsPrefix(calls, Escalated(FALSE))
          /\ \A i \in DOMAIN log :
               log[i].ev \in {"adapter.killProcess", "killProcess.returned"}
                 => log[i].pid = JSInt(found.pid)
          /\ (pc = "done" /\ calls = Escalated(FALSE))
               => log[Len(log)].ev = "advise.elevated"
          /\ (pc = "done" /\ calls \in {GracefulOnly, Escalated(TRUE)})
               => log[Len(log)].ev = "terminated"
          /\ (pc = "done" /\ calls # <<>>)
               => calls \in {GracefulOnly, Escalated(TRUE), Escalated(FALSE)}

C5_Witness ==
    /\ op = "execute" /\ pc = "done"
    /\ KillCalls = Escalated(FALSE)
    /\ log[Len(log)].ev = "advise.elevated"

\* C6: execute issues a termination request only if the force flag was
\* given, or confirmation is disabled in the stored configuration, or the
\* user answered the prompt yes; after a declined prompt killProcess is not
\* called at all.
C6_NoKillWithoutConsent ==
    op = "execute" =>
      /\ (HasEvent("adapter.killProcess") \/ Requests # <<>>)
           => \/ arg.forceFlag
              \/ ~confirmKill
              \/ \E i, j \in DOMAIN log :
                   /\ i < j
                   /\ log[i].ev = "prompt" /\ log[i].b
                   /\ log[j].ev = "adapter.killProcess"
                   /\ \A k \in DOMAIN log :
                        log[k].ev = "adapter.killProcess" => i < k
      /\ (\E i \in DOMAIN log : log[i].ev = "prompt" /\ ~log[i].b)
           => (~HasEvent("adapter.killProcess") /\ Requests = <<>>)

C6_Witness ==
    /\ op = "execute" /\ ~arg.forceFlag /\ confirmKill
    /\ \E i \in DOMAIN log : log[i].ev = "prompt" /\ log[i].b
    /\ Requests # <<>>

\* C7: whenever findProcessByPort(port) returns a record, the process it
\* names holds a socket in LISTEN state on that port.
C7_ListenStateOnly ==
    (op = "findByPort" /\ pc = "done" /\ ret.kind = "record")
      => \E i \in DOMAIN netTable :
           /\ netTable[i].pid = ret.rec.pid
           /\ netTable[i].state = "LISTEN"
           /\ JSInt(netTable[i].lport) = arg.port

\* C8: when the termination request of killProcess(pid, false) succeeds and
\* the recheck command itself errors, killProcess returns true.
C8_RecheckErrorMeansDead ==
    (kill.pc = "done" /\ ~kill.force /\ kill.observed = "error")
      => kill.ret = TRUE

C8_Witness ==
    /\ kill.pc = "done" /\ ~kill.force /\ kill.observed = "error"
    /\ NativeOfCall = <<"request", "sleep", "recheck">>
    /\ kill.ret = TRUE

\* C9, as stated: killProcess for a positive pid whose process has already
\* exited never throws and returns true.
C9_DeadProcessIsSuccess ==
    (op = "killProcess" /\ pc = "done" /\ IsPositiveInteger(arg.pid)
       /\ ~kill.wasLive)
      => (ret.kind = "bool" /\ ret.b = TRUE)

\* C9, amended: killProcess for a positive pid whose process has already
\* exited never throws and returns false: the termination request fails.
C9_DeadProcessIsFalse ==
    /\ (kill.pc = "done" /\ IsPositiveInteger(kill.pid) /\ ~kill.wasLive)
         => (kill.ret = FALSE /\ NativeOfCall = <<"request">>)
    /\ (op = "killProcess" /\ pc = "done" /\ IsPositiveInteger(arg.pid)
          /\ ~kill.wasLive)
         => (ret.kind = "bool" /\ ret.b = FALSE)

C9_Witness ==
    /\ op = "killProcess" /\ pc = "done" /\ IsPositiveInteger(arg.pid)
    /\ ~kill.wasLive /\ arg.pid.n \notin procs
    /\ ret.kind = "bool" /\ ret.b = FALSE

\* C10: for every valid port findProcessByPort returns a record or absent
\* and never throws; a failed lookup command, a failed or unparseable
\* process-details query, or a table with no parseable pid yields absent.
C10_LookupNeverThrows ==
    (op = "findByPort" /\ pc = "done" /\ IsValidPort(arg.port))
      => /\ ret.kind \in {"null", "record"}
         /\ (lookupEnv.lookupFails \/ lookupEnv.details # "ok")
              => ret.kind = "null"
         /\ (\A i \in DOMAIN netTable : netTable[i].pid <= 0)
              => ret.kind = "null"

C10_Witness ==
    /\ op = "findByPort" /\ pc = "done" /\ IsValidPort(arg.port)
    /\ lookupEnv.lookupFails
    /\ \E i \in DOMAIN netTable :
         /\ netTable[i].state = "LISTEN" /\ JSInt(netTable[i].lport) = arg.port
         /\ netTable[i].pid \in procs
    /\ ret.kind = "null"

\* C11: getAllPorts never throws; when the enumeration command fails
\* entirely it returns the empty sequence.
C11_ScanNeverThrows ==
    (op = "getAllPorts" /\ pc = "done")
      => /\ ret.kind = "list"
         /\ lookupEnv.lookupFails => ports = <<>>

C11_Witness ==
    /\ op = "getAllPorts" /\ pc = "done" /\ lookupEnv.lookupFails
    /\ \E i \in DOMAIN netTable :
         netTable[i].pid \in procs /\ netTable[i].lport = 80
    /\ ret.kind = "list" /\ ports = <<>>

\* C12: the sequence getAllPorts returns holds no two records with the same
\* (pid, port) pair, on every platform and with ss and with netstat, also
\* when the tool prints the pair on several lines.
C12_NoDuplicatePairs ==
    (op = "getAllPorts" /\ pc = "done")
      => \A i, j \in DOMAIN ports :
           (ports[i].pid = ports[j].pid /\ ports[i].port = ports[j].port)
             => i = j

C12_Witness ==
    /\ op = "getAllPorts" /\ pc = "done"
    /\ Len(netTable) = 2 /\ netTable[1] = netTable[2]
    /\ Len(ports) = 1
    /\ ports[1].pid = netTable[1].pid /\ ports[1].port = JSInt(netTable[1].lport)

\* C14: every record findByPort or getAllPorts returns has a pid that is a
\* positive integer and a port that is an integer in 1..65535.
C14_RecordsPositive ==
    /\ (op = "findByPort" /\ pc = "done" /\ ret.kind = "record")
         => (ret.rec.pid >= 1 /\ IsValidPort(ret.rec.port))
    /\ (op = "getAllPorts" /\ pc = "done")
         => \A i \in DOMAIN ports :
              ports[i].pid >= 1 /\ IsValidPort(ports[i].port)

\* the port lookup and the primary process query of the last lookup
\* succeeded: every line of the table is a listener on the port asked for
\* whose pid is alive, and the lookup and details commands did not fail
PrimarySucceeded ==
    /\ ~lookupEnv.lookupFails
    /\ lookupEnv.details = "ok"
    /\ Len(netTable) >= 1
    /\ \A i \in DOMAIN netTable :
         /\ netTable[i].state = "LISTEN"
         /\ JSInt(netTable[i].lport) = arg.port
         /\ netTable[i].pid \in procs

\* C13: when the port lookup and the primary process query succeed,
\* findProcessByPort returns a record whatever subset of the enrichment
\* queries fails; a query that did not fail still contributes its fields;
\* when all of them fail the record has pid, port, processName, command and
\* (not on Windows) user, and every enrichment field is absent.
C13_EnrichmentBestEffort ==
    (op = "findProcessByPort" /\ pc = "done" /\ PrimarySucceeded)
      => /\ ret.kind = "record"
         /\ ret.rec.pid = netTable[1].pid
         /\ ret.rec.port = arg.port
         /\ ret.rec.processName = ProcessTable(ret.rec.pid).name
         /\ ret.rec.command \in {ProcessTable(ret.rec.pid).command,
                                 ProcessTable(ret.rec.pid).name}
         /\ (ret.rec.user = NoUser) <=> (platform = "win32")
         /\ lookupEnv.enrichFails = Queries(platform)
              => ret.rec.context = NoContext
         /\ (platform # "win32" /\ "time" \notin lookupEnv.enrichFails)
              => ret.rec.context.uptime # AbsentNum
         /\ (platform # "win32" /\ "cwd" \notin lookupEnv.enrichFails)
              => ret.rec.context.workingDirectory # Absent
         /\ (platform # "win32" /\ "parent" \notin lookupEnv.enrichFails)
              => ret.rec.context.parentPid # AbsentNum
         /\ (platform = "win32" /\ "wmic" \notin lookupEnv.enrichFails)
              => /\ ret.rec.context.startTime # Absent
                 /\ ret.rec.context.parentPid # AbsentNum
                 /\ ret.rec.context.workingDirectory # Absent

C13_Witness ==
    /\ op = "findProcessByPort" /\ pc = "done" /\ PrimarySucceeded
    /\ lookupEnv.enrichFails = Queries(platform)
    /\ ret.kind = "record" /\ ret.rec.context = NoContext
    /\ ret.rec.processName = "node"

\* the positions of the events named e in the log
EventsAt(e) == {i \in DOMAIN log : log[i].ev = e}

\* C15: a critical classification only adds a warning, shown before any
\* prompt or termination: once a record is found the workflow asks for
\* confirmation exactly when the force flag and the configuration require it
\* and calls killProcess exactly when consent is given, for a critical
\* process as for any other.
C15_CriticalOnlyWarns ==
    (op = "execute" /\ found # NoRec)
      => /\ HasEvent("warn.critical")
              <=> IsCriticalProcess(platform, found.processName)
         /\ \A w \in EventsAt("warn.critical") :
              \A i \in DOMAIN log :
                log[i].ev \in {"prompt", "adapter.killProcess", "request.graceful",
                               "request.forceful"} => w < i
         /\ pc # "confirm"
              => /\ HasEvent("prompt") <=> ShouldConfirm(arg.forceFlag, confirmKill)
                 /\ HasEvent("adapter.killProcess")
                      <=> \/ ~ShouldConfirm(arg.forceFlag, confirmKill)
                          \/ \E i \in EventsAt("prompt") : log[i].b
         /\ (pc = "done" /\ HasEvent("adapter.killProcess"))
              => (HasEvent("terminated") \/ HasEvent("advise.elevated"))

C15_Witness ==
    /\ op = "execute" /\ pc = "done"
    /\ IsCriticalProcess(platform, found.processName)
    /\ HasEvent("warn.critical")
    /\ \E i \in EventsAt("prompt") : log[i].b
    /\ HasEvent("terminated")

\* C18: constructing ProcessService selects the one adapter of the running
\* platform when it is darwin, linux or win32, and fails with an error on any
\* other platform, where no lookup, scan or termination is ever performed.
C18_OneAdapterOrFail ==
    /\ adapter # "none"
         => /\ platform \in SupportedPlatforms
            /\ adapter = (IF platform = "darwin" THEN "MacOSAdapter"
                          ELSE IF platform = "linux" THEN "LinuxAdapter"
                          ELSE "WindowsAdapter")
    /\ (platform \in SupportedPlatforms /\ pc # "new") => adapter # "none"
    /\ pc = "failed"
         => (platform \notin SupportedPlatforms /\ ret.kind = "throw")
    /\ platform \notin SupportedPlatforms
         => /\ pc \in {"new", "failed"}
            /\ op = "none" /\ log = <<>> /\ ports = <<>> /\ kill = KillIdle

C18_Witness ==
    /\ platform = "freebsd" /\ pc = "failed"
    /\ ret = RetThrow("Unsupported platform")
    /\ adapter = "none"

MutatingOps == {"addPortMapping", "removePortMapping", "setAutoKill",
                "setConfirmKill", "clearConfig"}

\* C19: after any sequence of addPortMapping, removePortMapping and
\* clearConfig (and the other calls of a StorageService) the stored mappings
\* hold at most one mapping per port, and getPortMapping(p) is the mapping
\* added last for p, or absent when it was removed since or never added.
C19_OneMappingPerPort ==
    /\ \A i, j \in DOMAIN mappings :
         StrictEq(mappings[i].port, mappings[j].port) => i = j
    /\ \A p \in ValidPorts : GetPortMapping(mappings, p) = added[p]

C19_Witness ==
    /\ Len(log) = 2
    /\ log[1].ev = "addPortMapping" /\ log[1].pid = JSInt(80)
    /\ log[2].ev = "addPortMapping" /\ log[2].pid = JSInt(80)
    /\ Len(mappings) = 1
    /\ GetPortMapping(mappings, JSInt(80)).lastUsed = Date(1)

KillEvents == {"adapter.killProcess", "request.graceful", "request.forceful"}

\* C16: in a run of checkAndKill, a termination is called or requested only
\* with auto-kill enabled, after the prompt was answered yes, and for a pid
\* that a lookup returned for the port of a stored mapping with autoKill set
\* and a project path other than the current directory; with auto-kill
\* disabled the run makes no lookup, no prompt and no kill; every lookup is
\* for such a mapping, none for a port mapped to the current project; after
\* the prompt was declined nothing is killed.
C16_AutoKillOnlyWhenSelected ==
    op = "checkAndKill" =>
      /\ ~autoKillEnabled => log = <<>> /\ auto = AutoIdle /\ kill = KillIdle
      /\ \A i \in DOMAIN log :
           log[i].ev \in KillEvents =>
             /\ autoKillEnabled
             /\ \E j \in 1 .. i - 1 : log[j].ev = "prompt" /\ log[j].b
             /\ \E k \in DOMAIN auto.inUse :
                  LET e == auto.inUse[k]
                  IN  /\ JSInt(e.process.pid) = log[i].pid
                      /\ e.process.port = e.mapping.port
                      /\ e.mapping.autoKill
                      /\ e.mapping.projectPath # cwd
                      /\ GetPortMapping(mappings, e.mapping.port) = e.mapping
      /\ \A i \in DOMAIN log :
           log[i].ev = "adapter.findProcessByPort" =>
             LET m == GetPortMapping(mappings, log[i].pid)
             IN  m # NoMapping /\ m.autoKill /\ m.projectPath # cwd
      /\ (\E j \in DOMAIN log : log[j].ev = "prompt" /\ ~log[j].b) =>
           \A i \in DOMAIN log : log[i].ev \notin KillEvents

\* a confirmed check killed a process of another project while a mapping of
\* the current project, autoKill set, was stored too
C16_Witness ==
    /\ op = "checkAndKill" /\ pc = "done" /\ ret.msg = "killed"
    /\ auto.killed >= 1
    /\ HasEvent("request.graceful")
    /\ \E i \in DOMAIN mappings :
         mappings[i].projectPath = cwd /\ mappings[i].autoKill

\* a live process listens on the port in the connection table
ListensOn(port) ==
    \E i \in DOMAIN netTable :
      /\ netTable[i].state = "LISTEN"
      /\ JSInt(netTable[i].lport) = port
      /\ netTable[i].pid \in procs

\* C17: when `zkill auto check` ends with auto-kill enabled, a port that
\* `zkill <port>` associated with another directory and a live process
\* listening on that port, the run has looked the port up and reached the
\* auto-kill prompt for it, and after a yes has requested the termination of
\* the process found there.
C17_AutoCheckReachesPrompt ==
    \A port \in SwitchPorts :
      ( /\ op = "checkAndKill" /\ pc = "done"
        /\ autoKillEnabled
        /\ GetPortMapping(mappings, port) # NoMapping
        /\ GetPortMapping(mappings, port).projectPath # cwd
        /\ ListensOn(port) )
      => ( /\ \E k \in DOMAIN auto.inUse : auto.inUse[k].mapping.port = port
           /\ HasEvent("prompt")
           /\ (\E j \in DOMAIN log : log[j].ev = "prompt" /\ log[j].b)
                => \E k \in DOMAIN auto.inUse :
                     /\ auto.inUse[k].mapping.port = port
                     /\ \E i \in DOMAIN log :
                          /\ log[i].ev = "request.graceful"
                          /\ log[i].pid = JSInt(auto.inUse[k].process.pid) )

\* C21: whatever corrupted contents the config file has, a StorageService
\* constructed on it has logged the failure, holds the default configuration
\* until its first call, and none of its calls throws
C21_CorruptedConfigResets ==
    reloaded # NotReloaded
      => /\ HasEvent("warn.corrupted")
         /\ ret.kind # "throw"
         /\ op = "none" => reloaded = DefaultConfig

\* C22: a scan that fails on its --range argument has not run the enumeration
\* of the listening ports
C22_RangeRejectedBeforeEnumeration ==
    (op = "scan" /\ ret.kind = "throw" /\ options.range # <<>>
       /\ ParsePortRange(options.range).kind = "throw")
      => ~HasEvent("native.enumerate")

\* the records of a sequence, and how often one occurs in it
Occurrences(seq, x) == Cardinality({i \in DOMAIN seq : seq[i] = x})

\* the record passes every filter the options of the scan activate
PassesActiveFilters(p) ==
    /\ options.range # <<>> =>
          /\ p.port.k = "int"
          /\ options.range[1] <= p.port.n /\ p.port.n <= options.range[2]
    /\ options.process # Absent =>
          Includes(ToLowerCase(p.processName), ToLowerCase(options.process))
    /\ ~options.system => ~IsCriticalProcess(platform, p.processName)

EtimeWellFormed ==
    /\ Len(etime) \in {1, 2}
    /\ Len(etime) = 2 => Len(etime[1]) = 1 /\ Len(etime[2]) = 3
    /\ Len(etime) = 1 => Len(etime[1]) \in {2, 3}
    /\ \A i \in DOMAIN etime : \A j \in DOMAIN etime[i] : etime[i][j] # NoDigits
EtimeDD == IF Len(etime) = 2 THEN etime[1][1] ELSE 0
EtimeTime == etime[Len(etime)]
EtimeHH == IF Len(EtimeTime) = 3 THEN EtimeTime[1] ELSE 0
EtimeMM == EtimeTime[Len(EtimeTime) - 1]
EtimeSS == EtimeTime[Len(EtimeTime)]

\* C23: on Darwin and Linux a well-formed DD-HH:MM:SS, HH:MM:SS or MM:SS
\* string parses to (((DD*24 + HH)*60 + MM)*60 + SS) * 1000 milliseconds;
\* "2-10:30:45" gives 210645000, "10:30:45" 37845000 and "30:45" 1845000
C23_ElapsedTimeMilliseconds ==
    (op = "parseElapsedTime" /\ EtimeWellFormed)
      => /\ elapsed = (((EtimeDD * 24 + EtimeHH) * 60 + EtimeMM) * 60 + EtimeSS)
                        * 1000
         /\ etime = <<<<2>>, <<10, 30, 45>>>> => elapsed = 210645000
         /\ etime = <<<<10, 30, 45>>>> => elapsed = 37845000
         /\ etime = <<<<30, 45>>>> => elapsed = 1845000

C23_Witness ==
    /\ op = "parseElapsedTime"
    /\ etime = <<<<2>>, <<10, 30, 45>>>>
    /\ elapsed = 210645000

\* C24: a record findByPort(p) returns names a process that has a socket
\* whose local port is exactly p, and carries p as its port
C24_RecordBoundToExactPort ==
    (op = "findByPort" /\ pc = "done" /\ ret.kind = "record")
      => /\ ret.rec.port = arg.port
         /\ \E i \in DOMAIN netTable :
              /\ netTable[i].pid = ret.rec.pid
              /\ JSInt(netTable[i].lport) = arg.port

\* C25: when execute(port) has ended, the stored mappings hold the mapping
\* {port, current project, autoKill false} if the process was terminated
\* inside a project directory, and are what they were (none) otherwise
C25_MappingOnlyAfterKillInProject ==
    (op = "execute" /\ pc = "done")
      => IF inProject /\ ret.msg = "terminated"
         THEN /\ Len(mappings) = 1
              /\ mappings[1].port = arg.port
              /\ mappings[1].projectName = CurrentProject.name
              /\ mappings[1].projectPath = CurrentProject.path
              /\ mappings[1].autoKill = FALSE
         ELSE mappings = <<>>

\* C26: a StorageService constructed after two processes sharing the config
\* file have each added a mapping for a different port, both writes having
\* succeeded, returns both mappings
C26_NoLostMapping ==
    (reloaded # NotReloaded /\ InstancesFinished
       /\ \A i \in {1, 2} : inst[i].written)
      => \A i \in {1, 2} :
           GetPortMapping(reloaded.portMappings, InstancePort(i)) # NoMapping

\* the call of the adapter's killProcess that the event at i returned from
CallReturnedAt(i) ==
    LET calls == {j \in 1..i : log[j].ev = "adapter.killProcess"}
    IN  log[CHOOSE j \in calls : \A k \in calls : k <= j]

\* C27: when `zkill auto check` has ended, every graceful killProcess(pid,
\* false) of the run that returned false was followed by exactly one
\* killProcess(pid, true) for that pid
C27_AutoKillRetriesForcefully ==
    (op = "checkAndKill" /\ pc = "done")
      => \A i \in EventsAt("killProcess.returned") :
           (~log[i].b /\ ~CallReturnedAt(i).b)
             => Cardinality({j \in DOMAIN log :
                               /\ j > i
                               /\ log[j] = Ev("adapter.killProcess",
                                              log[i].pid, TRUE)}) = 1

\* C28: on Windows a returned record whose context has parent pid 4 or a
\* parent name containing "services" is tagged serviceManager
\* "windows-service", whichever enrichment queries failed
C28_WindowsServiceTagged ==
    (op = "findProcessByPort" /\ pc = "done" /\ platform = "win32"
       /\ ret.kind = "record"
       /\ \/ ret.rec.context.parentPid = 4
          \/ /\ ret.rec.context.parentProcessName # Absent
             /\ Includes(ToLowerCase(ret.rec.context.parentProcessName),
                         "services"))
      => ret.rec.context.serviceManager = "windows-service"

\* C29: across the calls made on one LinuxAdapter the existence check of ss
\* runs at most once, and every call uses the tool that probe chose
C29_SSProbedOnce ==
    /\ Cardinality(Probes) <= 1
    /\ \A i \in Probes :
         log[i + 1].ev = LinuxTool(log[CHOOSE j \in Probes :
                                         \A k \in Probes : j <= k].b)

====
